---- MODULE Spec2Model ----
(***************************************************************************)
(* Voice-interaction control plane of the Jarvis desktop assistant:        *)
(* the five-state VoiceStateMachine (voice/state_machine.rs) and the       *)
(* VoiceController that drives it from a processing thread and from host   *)
(* commands (voice/mod.rs, commands/voice.rs).                             *)
(***************************************************************************)
EXTENDS Integers, Sequences, FiniteSets, TLC

\* ------------------------------------------------------------------ bounds

\* Longest captured-audio buffer (in samples) the standalone FSM is driven to.
MaxAudio == 3
\* Largest value of the monotonic clock read by Instant::now().
MaxClock == 2

\* Controller sessions (start_voice_listening calls that build a controller).
MaxSessions == 1
\* Chunks the capture of one session delivers to the channel.
MaxChunks == 2
\* Samples in one chunk delivered by the capture (1024 in the code).
ChunkLen == 1
\* VoiceConfig.mel_frame_count and VoiceConfig.silence_frames_threshold of the
\* modelled controller: the code reads both from its VoiceConfig (76 and 16 in
\* VoiceConfig::default()); the controller is modelled with a short window so
\* that a wake word and a speech end fit in MaxChunks chunks.
CtlMelFrames == 2
CtlSilenceFrames == 1

\* process calls made on the standalone VoiceActivityDetector: one loud chunk
\* and sixteen silent ones fit.
MaxVadCalls == 17
\* Chunks that are not all-zero among the calls between two resets.
MaxLoudChunks == 3
\* Largest capacity the standalone AudioBuffer and MelBuffer are built with.
MaxCapacity == 2
\* Samples pushed to the standalone AudioBuffer, frames pushed to the MelBuffer.
MaxPushed == 4
MaxFrames == 3

\* Samples are counted in blocks of 128 in the standalone AudioCapture: the
\* chunk_size of its callback (1024 in the code) and VoiceConfig.chunk_size
\* (1280 in the code).
CaptureChunk == 8
CanonicalChunk == 10
\* Raw samples (in the same blocks) the device hands to the callbacks of the
\* standalone AudioCapture.
MaxCapInput == 20
\* process_audio calls made on the standalone WakeWordDetector between two
\* resets: one more than the 76 frames of its window.
MaxDetCalls == 77
\* Actions of the standalone FSM remembered since it last was in Idle: one
\* interaction returns four (StartCapture, SendToStt, ProcessText, PlayTts).
TrailLen == 4
\* The lock scenario: command invocations the runtime runs at the same time,
\* commands invoked in all, and chunks the capture delivers to the thread.
LockWorkers == 2
LockControllers == 2
MaxLockCalls == 4
MaxLockChunks == 2
\* Controllers the two-session scenario builds.
SessionSlots == 2

\* Chunks the capture delivers in the scenario of a session that is never
\* stopped: speech, silence, and a chunk that arrives after the speech end.
PipelineChunks == 3

\* ------------------------------------------------------------- vocabulary

VoiceStates == {"Idle", "Listening", "Transcribing", "Processing", "Speaking"}

\* Payload strings of TranscriptionComplete / ResponseReady / Error.
Texts == {"hi", "stt down"}

\* Sample sequences handed to add_audio (samples are integers standing for f32).
FsmChunks == {<< >>, <<1>>, <<2, 3>>}

\* VoiceEvent: the payload-free variants carry text "".
Ev(t, x) == [type |-> t, text |-> x]

PlainEvents ==
    {Ev(t, "") : t \in {"WakeWordDetected", "ManualTrigger", "VadSpeechEnd",
                        "SpeechComplete", "BargeIn", "Timeout", "Cancel"}}

TextEvents ==
    {Ev(t, x) : t \in {"TranscriptionComplete", "ResponseReady", "Error"}, x \in Texts}

VoiceEvents == PlainEvents \cup TextEvents

\* Option<StateAction>: type "None" is the absent action; text and audio are the
\* payloads of the variants that carry one.
Act(t, x, a) == [type |-> t, text |-> x, audio |-> a]

NoAction == Act("None", "", << >>)

\* ------------------------------------------------------ VoiceStateMachine

\* VoiceStateMachine::new at clock reading now.
NewFsm(now) == [state |-> "Idle", last_transition |-> now, captured_audio |-> << >>]

\* add_audio without its state test.
AddAudio_AnyState(fsm, samples) ==
    [fsm EXCEPT !.captured_audio = fsm.captured_audio \o samples]

\* add_audio that overwrites the buffer instead of extending it.
AddAudio_Overwrite(fsm, samples) ==
    IF fsm.state = "Listening"
    THEN [fsm EXCEPT !.captured_audio = samples]
    ELSE fsm

\* VoiceStateMachine::add_audio: append only in Listening.
AddAudio(fsm, samples) ==
    IF fsm.state = "Listening"
    THEN [fsm EXCEPT !.captured_audio = fsm.captured_audio \o samples]
    ELSE fsm

\* The match with the buffer copied into SendToStt instead of moved out.
TransitionArm_CloneOnSpeechEnd(fsm, event) ==
    LET st == fsm.state
        ty == event.type
        keep == fsm.captured_audio
        Arm(buf, to, act) == [captured_audio |-> buf, new_state |-> to, action |-> act]
    IN
    IF st = "Idle" /\ ty \in {"WakeWordDetected", "ManualTrigger"}
    THEN Arm(<< >>, "Listening", Act("StartCapture", "", << >>))
    ELSE IF st = "Listening" /\ ty = "VadSpeechEnd"
    THEN Arm(keep, "Transcribing", Act("SendToStt", "", keep))
    ELSE IF st = "Listening" /\ ty \in {"Timeout", "Cancel"}
    THEN Arm(<< >>, "Idle", Act("StopCapture", "", << >>))
    ELSE IF st = "Transcribing" /\ ty = "TranscriptionComplete"
    THEN Arm(keep, "Processing", Act("ProcessText", event.text, << >>))
    ELSE IF st = "Processing" /\ ty = "ResponseReady"
    THEN Arm(keep, "Speaking", Act("PlayTts", event.text, << >>))
    ELSE IF st \in {"Transcribing", "Processing"} /\ ty = "Error"
    THEN Arm(keep, "Idle", Act("EmitError", event.text, << >>))
    ELSE IF st = "Speaking" /\ ty = "SpeechComplete"
    THEN Arm(keep, "Idle", NoAction)
    ELSE IF st = "Speaking" /\ ty = "BargeIn"
    THEN Arm(<< >>, "Listening", Act("StopTts", "", << >>))
    ELSE IF st = "Speaking" /\ ty = "Cancel"
    THEN Arm(keep, "Idle", Act("StopTts", "", << >>))
    ELSE IF ty = "Error"
    THEN Arm(<< >>, "Idle", Act("EmitError", event.text, << >>))
    ELSE Arm(keep, st, NoAction)

\* The match with the Listening/Cancel arm missing its clear() and the
\* Speaking/BargeIn arm going back to Idle.
TransitionArm_CancelKeepsAudio(fsm, event) ==
    LET st == fsm.state
        ty == event.type
        keep == fsm.captured_audio
        Arm(buf, to, act) == [captured_audio |-> buf, new_state |-> to, action |-> act]
    IN
    IF st = "Idle" /\ ty \in {"WakeWordDetected", "ManualTrigger"}
    THEN Arm(<< >>, "Listening", Act("StartCapture", "", << >>))
    ELSE IF st = "Listening" /\ ty = "VadSpeechEnd"
    THEN Arm(<< >>, "Transcribing", Act("SendToStt", "", keep))
    ELSE IF st = "Listening" /\ ty = "Timeout"
    THEN Arm(<< >>, "Idle", Act("StopCapture", "", << >>))
    ELSE IF st = "Listening" /\ ty = "Cancel"
    THEN Arm(keep, "Idle", Act("StopCapture", "", << >>))
    ELSE IF st = "Transcribing" /\ ty = "TranscriptionComplete"
    THEN Arm(keep, "Processing", Act("ProcessText", event.text, << >>))
    ELSE IF st = "Processing" /\ ty = "ResponseReady"
    THEN Arm(keep, "Speaking", Act("PlayTts", event.text, << >>))
    ELSE IF st \in {"Transcribing", "Processing"} /\ ty = "Error"
    THEN Arm(keep, "Idle", Act("EmitError", event.text, << >>))
    ELSE IF st = "Speaking" /\ ty = "SpeechComplete"
    THEN Arm(keep, "Idle", NoAction)
    ELSE IF st = "Speaking" /\ ty = "BargeIn"
    THEN Arm(<< >>, "Idle", Act("StopTts", "", << >>))
    ELSE IF st = "Speaking" /\ ty = "Cancel"
    THEN Arm(keep, "Idle", Act("StopTts", "", << >>))
    ELSE IF ty = "Error"
    THEN Arm(<< >>, "Idle", Act("EmitError", event.text, << >>))
    ELSE Arm(keep, st, NoAction)

\* The match of VoiceStateMachine::transition: the buffer after the arm has run,
\* the target state and the action. Arms are tried in source order.
TransitionArm(fsm, event) ==
    LET st == fsm.state
        ty == event.type
        keep == fsm.captured_audio
        Arm(buf, to, act) == [captured_audio |-> buf, new_state |-> to, action |-> act]
    IN
    IF st = "Idle" /\ ty = "WakeWordDetected"
    THEN Arm(<< >>, "Listening", Act("StartCapture", "", << >>))
    ELSE IF st = "Idle" /\ ty = "ManualTrigger"
    THEN Arm(<< >>, "Listening", Act("StartCapture", "", << >>))
    ELSE IF st = "Listening" /\ ty = "VadSpeechEnd"
    THEN Arm(<< >>, "Transcribing", Act("SendToStt", "", keep))
    ELSE IF st = "Listening" /\ ty = "Timeout"
    THEN Arm(<< >>, "Idle", Act("StopCapture", "", << >>))
    ELSE IF st = "Listening" /\ ty = "Cancel"
    THEN Arm(<< >>, "Idle", Act("StopCapture", "", << >>))
    ELSE IF st = "Transcribing" /\ ty = "TranscriptionComplete"
    THEN Arm(keep, "Processing", Act("ProcessText", event.text, << >>))
    ELSE IF st = "Transcribing" /\ ty = "Error"
    THEN Arm(keep, "Idle", Act("EmitError", event.text, << >>))
    ELSE IF st = "Processing" /\ ty = "ResponseReady"
    THEN Arm(keep, "Speaking", Act("PlayTts", event.text, << >>))
    ELSE IF st = "Processing" /\ ty = "Error"
    THEN Arm(keep, "Idle", Act("EmitError", event.text, << >>))
    ELSE IF st = "Speaking" /\ ty = "SpeechComplete"
    THEN Arm(keep, "Idle", NoAction)
    ELSE IF st = "Speaking" /\ ty = "BargeIn"
    THEN Arm(<< >>, "Listening", Act("StopTts", "", << >>))
    ELSE IF st = "Speaking" /\ ty = "Cancel"
    THEN Arm(keep, "Idle", Act("StopTts", "", << >>))
    ELSE IF ty = "Error"
    THEN Arm(<< >>, "Idle", Act("EmitError", event.text, << >>))
    ELSE Arm(keep, st, NoAction)

\* transition that empties the buffer whenever it returns no action.
Transition_ClearsOnNoOp(fsm, event, now) ==
    LET arm == TransitionArm(fsm, event) IN
    [fsm |-> [state |-> arm.new_state,
              last_transition |-> IF arm.new_state # fsm.state
                                  THEN now ELSE fsm.last_transition,
              captured_audio |-> IF arm.action = NoAction
                                 THEN << >> ELSE arm.captured_audio],
     result |-> [new_state |-> arm.new_state, action |-> arm.action]]

\* transition with an extra arm: ResponseReady is accepted in Transcribing.
Transition_ResponseInTranscribing(fsm, event, now) ==
    LET arm == IF fsm.state = "Transcribing" /\ event.type = "ResponseReady"
               THEN [new_state |-> "Speaking",
                     action |-> Act("PlayTts", event.text, << >>),
                     captured_audio |-> fsm.captured_audio]
               ELSE TransitionArm(fsm, event)
    IN
    [fsm |-> [state |-> arm.new_state,
              last_transition |-> IF arm.new_state # fsm.state
                                  THEN now ELSE fsm.last_transition,
              captured_audio |-> arm.captured_audio],
     result |-> [new_state |-> arm.new_state, action |-> arm.action]]

\* VoiceStateMachine::transition at clock reading now: the machine afterwards and
\* the TransitionResult. last_transition is refreshed only on a state change.
Transition(fsm, event, now) ==
    LET arm == TransitionArm(fsm, event) IN
    [fsm |-> [state |-> arm.new_state,
              last_transition |-> IF arm.new_state # fsm.state
                                  THEN now ELSE fsm.last_transition,
              captured_audio |-> arm.captured_audio],
     result |-> [new_state |-> arm.new_state, action |-> arm.action]]

\* VoiceStateMachine::reset at clock reading now.
Reset(fsm, now) == [state |-> "Idle", last_transition |-> now, captured_audio |-> << >>]

\* ------------------------------------------------------------ VoiceConfig

\* Fixed point: amplitudes and silence_threshold in whole thousandths (the
\* detector turns them into the f32 the code holds), scores and
\* wake_word_threshold in thousandths, sensitivity in tenths.
VoiceConfigWith(mel, sil) ==
    [sample_rate |-> 16000, chunk_size |-> 1280, mel_frame_count |-> mel,
     wake_word_threshold |-> 500, sensitivity |-> 10,
     silence_threshold |-> 10, silence_frames_threshold |-> sil]

\* The threshold taken as the product of base threshold and sensitivity.
EffectiveThreshold_Product(config) ==
    (config.wake_word_threshold * config.sensitivity) \div 10

\* VoiceConfig::effective_threshold: wake_word_threshold / sensitivity.
EffectiveThreshold(config) == (config.wake_word_threshold * 10) \div config.sensitivity

\* ------------------------------------------------ VoiceActivityDetector

\* The f32 values of the detector are never negative: a sample enters only as
\* its square. Such a value is m * 2^e with 2^23 <= m < 2^24, or with
\* m < 2^23 and e = -149 (the subnormal numbers and zero). Every operation
\* below rounds as the hardware does: to the nearest f32, ties to the even m.
ZeroLevel == [m |-> 0, e |-> -149]

\* The one element of a singleton set.
Only(S) == CHOOSE r \in S : TRUE

\* The number of binary digits of n, for n < 2^8 and for n < 2^32.
BitLen8(n) ==
    IF n < 16
    THEN IF n < 4 THEN (IF n < 2 THEN n ELSE 2) ELSE (IF n < 8 THEN 3 ELSE 4)
    ELSE IF n < 64 THEN (IF n < 32 THEN 5 ELSE 6) ELSE (IF n < 128 THEN 7 ELSE 8)

BitLen(n) ==
    IF n < 2^16
    THEN IF n < 2^8 THEN BitLen8(n) ELSE 8 + BitLen8(n \div 2^8)
    ELSE IF n < 2^24 THEN 16 + BitLen8(n \div 2^16) ELSE 24 + BitLen8(n \div 2^24)

\* (hi * 2^24 + lo) / 2^s to the nearest whole number, ties to even; with
\* sticky the dividend stands for a number slightly above hi * 2^24 + lo.
\* (0 < s <= 53, lo < 2^24, hi < 2^s.)
ShiftRound(hi, lo, s, sticky) ==
    Only({p.q + (IF p.gt \/ (p.eq /\ (sticky \/ p.q % 2 = 1)) THEN 1 ELSE 0) :
          p \in {IF s <= 24
                 THEN [q |-> hi * 2^(24 - s) + lo \div 2^s,
                       gt |-> lo % 2^s > 2^(s - 1),
                       eq |-> lo % 2^s = 2^(s - 1)]
                 ELSE [q |-> hi \div 2^(s - 24),
                       gt |-> \/ hi % 2^(s - 24) > 2^(s - 25)
                              \/ hi % 2^(s - 24) = 2^(s - 25) /\ lo > 0,
                       eq |-> hi % 2^(s - 24) = 2^(s - 25) /\ lo = 0]}})

\* The f32 nearest to (hi * 2^24 + lo) * 2^e (lo < 2^24, hi < 2^28): len is
\* the number of digits of the product's first factor, s the digits it loses.
\* A sticky first factor always loses digits.
F32RoundLen(hi, lo, e, sticky, len) ==
    Only({IF s <= 0
          THEN Only({[m |-> lo * 2^c, e |-> e - c] :
                     c \in {IF 24 - len < e + 149 THEN 24 - len ELSE e + 149}})
          ELSE IF s > len + 1 THEN ZeroLevel
          ELSE Only({IF q = 2^24 THEN [m |-> 2^23, e |-> e + s + 1]
                                 ELSE [m |-> q, e |-> e + s] :
                     q \in {ShiftRound(hi, lo, s, sticky)}}) :
          s \in {IF len - 24 > (-149) - e THEN len - 24 ELSE (-149) - e}})

F32Round(hi, lo, e, sticky) ==
    IF hi = 0 /\ lo = 0 THEN ZeroLevel
    ELSE Only({F32RoundLen(hi, lo, e, sticky, len) :
               len \in {IF hi > 0 THEN 24 + BitLen(hi) ELSE BitLen(lo)}})

\* a * b as hi * 2^24 + lo, for a, b < 2^26.
BigMul(a, b) ==
    Only({Only({[hi |-> (a \div 4096) * (b \div 4096) + mid \div 4096 + low \div 2^24,
                 lo |-> low % 2^24] :
                low \in {(a % 4096) * (b % 4096) + (mid % 4096) * 4096}}) :
          mid \in {(a \div 4096) * (b % 4096) + (a % 4096) * (b \div 4096)}})

\* m * 2^d as hi * 2^24 + lo, for m < 2^24 and d <= 27.
BigShl(m, d) ==
    IF d <= 24 THEN [hi |-> m \div 2^(24 - d), lo |-> (m % 2^(24 - d)) * 2^d]
    ELSE [hi |-> m * 2^(d - 24), lo |-> 0]

\* x * y in f32.
F32Mul(x0, y0) ==
    Only({IF x.m = 0 \/ y.m = 0 THEN ZeroLevel
          ELSE Only({F32Round(p.hi, p.lo, x.e + y.e, FALSE) : p \in {BigMul(x.m, y.m)}}) :
          x \in {x0}, y \in {y0}})

\* x + y in f32: a is the operand of the larger exponent. An operand more
\* than 2^25 times the other is the sum.
F32Add(x0, y0) ==
    Only({IF b.m = 0 THEN a
          ELSE IF a.m = 0 THEN b
          ELSE IF a.e - b.e >= 26 THEN a
          ELSE Only({F32Round(p.hi + (p.lo + b.m) \div 2^24, (p.lo + b.m) % 2^24,
                              b.e, FALSE) :
                     p \in {BigShl(a.m, a.e - b.e)}}) :
          a \in {IF x0.e < y0.e THEN y0 ELSE x0},
          b \in {IF x0.e < y0.e THEN x0 ELSE y0}})

\* x - y in f32, for x >= y.
F32Sub(x0, y0) ==
    Only({IF y.m = 0 \/ x.e - y.e >= 26 THEN x
          ELSE Only({IF p.lo >= y.m
                     THEN F32Round(p.hi, p.lo - y.m, y.e, FALSE)
                     ELSE F32Round(p.hi - 1, p.lo + 2^24 - y.m, y.e, FALSE) :
                     p \in {BigShl(x.m, x.e - y.e)}}) :
          x \in {x0}, y \in {y0}})

\* x / (n as f32) in f32, for a whole number n, 1 <= n <= 2^19: the quotient
\* of x.m * 2^24 by n in three steps of long division, sticky when a
\* remainder is left.
F32DivInt(x0, n) ==
    Only({IF x.m = 0 THEN ZeroLevel
          ELSE Only({Only({F32Round(x.m \div n, d1.q * 4096 + d0.q, x.e - 24, d0.r # 0) :
                           d0 \in {[q |-> (d1.r * 4096) \div n, r |-> (d1.r * 4096) % n]}}) :
                     d1 \in {[q |-> ((x.m % n) * 4096) \div n,
                              r |-> ((x.m % n) * 4096) % n]}}) :
          x \in {x0}})

\* k as f32, for a whole number 0 <= k < 2^24.
F32FromInt(k) ==
    IF k = 0 THEN ZeroLevel
    ELSE Only({[m |-> k * 2^(24 - len), e |-> len - 24] : len \in {BitLen(k)}})

\* The size of the f32 that is k thousandths (the f32 nearest to k / 1000),
\* for -2^24 < k < 2^24.
OfThousandths(k) == F32DivInt(F32FromInt(IF k < 0 THEN -k ELSE k), 1000)

\* x < y on f32 values.
F32Lt(x, y) == x.e < y.e \/ (x.e = y.e /\ x.m < y.m)

\* The largest r in lo..hi with r * r <= n, by bisection at mid.
RECURSIVE ISqrtIn(_, _, _)
ISqrtIn(n, lo, hi) ==
    IF lo = hi THEN lo
    ELSE Only({IF mid * mid <= n THEN ISqrtIn(n, mid, hi) ELSE ISqrtIn(n, lo, mid - 1) :
               mid \in {(lo + hi + 1) \div 2}})

\* The largest r with r * r <= hi * 2^24, for 2^25 <= hi < 2^27. With r1 the
\* root of hi, r1 * 2^12 + u for u == (hi - r1 * r1) * 2^11 \div r1 is that r
\* or one more.
BigSqrt(hi) ==
    Only({Only({IF BigMul(c, c).hi < hi \/ BigMul(c, c) = [hi |-> hi, lo |-> 0]
                THEN c ELSE c - 1 :
                c \in {r1 * 2^12 + ((hi - r1 * r1) * 2^11) \div r1}}) :
          r1 \in {ISqrtIn(hi, 2^12, 2^14)}})

\* The root r of x.m * 2^t, of 25 or 26 digits, rounded to f32; sticky when
\* r * r falls short of it. x.m * 2^t is hi * 2^24 for hi == norm * 2^(t - 24
\* + len - 24) and the 24-digit norm == x.m * 2^(24 - len).
F32SqrtAt(x, len, t) ==
    Only({Only({F32Round(r \div 2^24, r % 2^24, (x.e - t) \div 2,
                         BigMul(r, r) # [hi |-> hi, lo |-> 0]) :
                r \in {BigSqrt(hi)}}) :
          hi \in {(x.m * 2^(24 - len)) * 2^(t - 24 + len - 24)}})

\* sqrt(x) in f32: sqrt(x.m * 2^t) * 2^((x.e - t) / 2) for the t that makes
\* x.e - t even and x.m * 2^t a number of 50 or 51 digits.
F32Sqrt(x0) ==
    Only({IF x.m = 0 THEN ZeroLevel
          ELSE Only({F32SqrtAt(x, len, IF (x.e - (50 - len)) % 2 = 0
                                       THEN 50 - len ELSE 51 - len) :
                     len \in {BitLen(x.m)}}) :
          x \in {x0}})

\* samples.iter().map(|&s| s * s).sum(): the squares added from the first
\* sample on. Samples are whole numbers of thousandths.
RECURSIVE SumSquares(_)
SumSquares(samples) ==
    IF samples = << >> THEN ZeroLevel
    ELSE Only({F32Add(SumSquares(SubSeq(samples, 1, Len(samples) - 1)), F32Mul(s, s)) :
               s \in {OfThousandths(samples[Len(samples)])}})

\* calculate_rms: sqrt(mean of squares), 0 for an empty slice.
CalculateRms(samples) ==
    IF samples = << >> THEN ZeroLevel
    ELSE F32Sqrt(F32DivInt(SumSquares(samples), Len(samples)))

\* smoothing_factor of VoiceActivityDetector::new.
SmoothingFactor == OfThousandths(300)

\* 1.0 - smoothing_factor.
KeptShare == F32Sub(F32FromInt(1), SmoothingFactor)

\* smoothing_factor * rms + (1.0 - smoothing_factor) * smoothed_rms.
Smooth(rms, smoothed_rms) ==
    F32Add(F32Mul(SmoothingFactor, rms), F32Mul(KeptShare, smoothed_rms))

\* level < threshold, for the f32 level and a threshold in thousandths.
Below(level, threshold) == F32Lt(level, OfThousandths(threshold))

\* VoiceActivityDetector::new.
NewVad(config) ==
    [silence_threshold |-> config.silence_threshold,
     silence_frames_threshold |-> config.silence_frames_threshold,
     silent_frame_count |-> 0, speech_detected |-> FALSE, smoothed_rms |-> ZeroLevel]

\* process without the speech_detected test: silence counts from the start.
VadProcess_NoSpeechGate(vad, samples) ==
    LET rms == CalculateRms(samples)
        smoothed == Smooth(rms, vad.smoothed_rms)
        count == vad.silent_frame_count + 1
    IN
    IF ~Below(smoothed, vad.silence_threshold)
    THEN [vad |-> [vad EXCEPT !.smoothed_rms = smoothed, !.speech_detected = TRUE,
                              !.silent_frame_count = 0],
          result |-> "Speech"]
    ELSE [vad |-> [vad EXCEPT !.smoothed_rms = smoothed, !.silent_frame_count = count],
          result |-> IF count >= vad.silence_frames_threshold
                     THEN "SpeechEnd" ELSE "Silence"]

\* process that resets the detector when it returns SpeechEnd.
VadProcess_AutoReset(vad, samples) ==
    LET rms == CalculateRms(samples)
        smoothed == Smooth(rms, vad.smoothed_rms)
        is_silent == Below(smoothed, vad.silence_threshold)
        count == vad.silent_frame_count + 1
    IN
    IF ~is_silent
    THEN [vad |-> [vad EXCEPT !.smoothed_rms = smoothed, !.speech_detected = TRUE,
                              !.silent_frame_count = 0],
          result |-> "Speech"]
    ELSE IF vad.speech_detected
    THEN IF count >= vad.silence_frames_threshold
         THEN [vad |-> [vad EXCEPT !.smoothed_rms = ZeroLevel, !.speech_detected = FALSE,
                                   !.silent_frame_count = 0],
               result |-> "SpeechEnd"]
         ELSE [vad |-> [vad EXCEPT !.smoothed_rms = smoothed,
                                   !.silent_frame_count = count],
               result |-> "Silence"]
    ELSE [vad |-> [vad EXCEPT !.smoothed_rms = smoothed], result |-> "Silence"]

\* VoiceActivityDetector::process (smoothing_factor 0.3): the detector afterwards
\* and the VadResult.
VadProcess(vad, samples) ==
    CHOOSE r \in
      { LET is_silent == Below(smoothed, vad.silence_threshold)
            count == vad.silent_frame_count + 1
        IN
        IF ~is_silent
        THEN [vad |-> [vad EXCEPT !.smoothed_rms = smoothed, !.speech_detected = TRUE,
                                  !.silent_frame_count = 0],
              result |-> "Speech"]
        ELSE IF vad.speech_detected
        THEN [vad |-> [vad EXCEPT !.smoothed_rms = smoothed, !.silent_frame_count = count],
              result |-> IF count >= vad.silence_frames_threshold
                         THEN "SpeechEnd" ELSE "Silence"]
        ELSE [vad |-> [vad EXCEPT !.smoothed_rms = smoothed], result |-> "Silence"]
        : smoothed \in {Smooth(CalculateRms(samples), vad.smoothed_rms)} } : TRUE

\* VoiceActivityDetector::reset.
VadReset(vad) ==
    [vad EXCEPT !.silent_frame_count = 0, !.speech_detected = FALSE,
         !.smoothed_rms = ZeroLevel]

\* ----------------------------------------------------- WakeWordDetector

\* What the three ONNX sessions do with one chunk: the mel model fails, the
\* embedding or classifier model fails, or the classifier yields a score.
InferenceOutcomes ==
    {[kind |-> "mel_err", score |-> 0], [kind |-> "infer_err", score |-> 0],
     [kind |-> "score", score |-> 200], [kind |-> "score", score |-> 800]}

\* WakeWordDetector::new with the config cloned into it; the mel buffer is
\* modelled by its length.
NewDetector(config) == [present |-> TRUE, mel_len |-> 0, config |-> config]

\* The Option<WakeWordDetector> left when construction fails.
NoDetector(config) == [present |-> FALSE, mel_len |-> 0, config |-> config]

\* MelBuffer::push_frame, on the length.
MelPush(len, capacity) == (IF len >= capacity /\ len > 0 THEN len - 1 ELSE len) + 1

\* process_audio that runs the models on whatever the window holds.
ProcessAudio_NoReadyCheck(det, outcome) ==
    IF outcome.kind = "mel_err"
    THEN [det |-> det, kind |-> "Err", score |-> 0]
    ELSE LET len == MelPush(det.mel_len, det.config.mel_frame_count)
             pushed == [det EXCEPT !.mel_len = len]
         IN
         IF outcome.kind = "infer_err"
         THEN [det |-> pushed, kind |-> "Err", score |-> 0]
         ELSE [det |-> pushed, kind |-> "Some", score |-> outcome.score]

\* WakeWordDetector::process_audio: Err, Ok(None) or Ok(Some(score)).
ProcessAudio(det, outcome) ==
    IF outcome.kind = "mel_err"
    THEN [det |-> det, kind |-> "Err", score |-> 0]
    ELSE LET len == MelPush(det.mel_len, det.config.mel_frame_count)
             pushed == [det EXCEPT !.mel_len = len]
         IN
         IF ~(len >= det.config.mel_frame_count)
         THEN [det |-> pushed, kind |-> "None", score |-> 0]
         ELSE IF outcome.kind = "infer_err"
         THEN [det |-> pushed, kind |-> "Err", score |-> 0]
         ELSE [det |-> pushed, kind |-> "Some", score |-> outcome.score]

\* mel_bands of WakeWordDetector::new: the width its MelBuffer is declared
\* with and the width compute_mel_spectrogram cuts or pads its output to.
MelBands == 32

\* compute_mel_spectrogram that hands on the model's output as it is.
MelFrame_Raw(data, mel_bands) == data

\* compute_mel_spectrogram on the mel model's output data: the first mel_bands
\* values, or all of them padded with zeros to mel_bands.
MelFrame(data, mel_bands) ==
    IF Len(data) >= mel_bands
    THEN SubSeq(data, 1, mel_bands)
    ELSE data \o [i \in 1..(mel_bands - Len(data)) |-> 0]

\* process_audio, step 2: (value / 10.0) + 2.0 on every value of the frame,
\* in f32; the model's values are whole numbers here.
MelTransform(mel_frame) ==
    [i \in 1..Len(mel_frame) |->
        F32Add(F32DivInt(F32FromInt(mel_frame[i]), 10), F32FromInt(2))]

\* WakeWordDetector::is_detected.
IsDetected(det, score) == score > EffectiveThreshold(det.config)

\* WakeWordDetector::set_sensitivity: the clamped value goes into the
\* detector's own config.
DetSetSensitivity(det, sensitivity) ==
    [det EXCEPT !.config.sensitivity =
        IF sensitivity < 1 THEN 1 ELSE IF sensitivity > 30 THEN 30 ELSE sensitivity]

\* WakeWordDetector::reset.
DetReset(det) == [det EXCEPT !.mel_len = 0]

\* ------------------------------------------------ AudioBuffer, MelBuffer

\* VecDeque::pop_front: nothing happens on an empty deque.
PopFront(q) == IF q = << >> THEN q ELSE Tail(q)

\* AudioBuffer::new.
AudioBufferNew(capacity) == [buffer |-> << >>, capacity |-> capacity]

\* AudioBuffer::push_samples: per sample, pop the oldest when len >= capacity,
\* then push.
RECURSIVE PushSamples(_, _)
PushSamples(buf, samples) ==
    IF samples = << >> THEN buf
    ELSE LET room == IF Len(buf.buffer) >= buf.capacity
                     THEN PopFront(buf.buffer) ELSE buf.buffer
         IN PushSamples([buf EXCEPT !.buffer = Append(room, Head(samples))],
                        Tail(samples))

\* AudioBuffer::get_all.
GetAll(buf) == buf.buffer

\* AudioBuffer::clear.
AudioClear(buf) == [buf EXCEPT !.buffer = << >>]

\* MelBuffer::new.
MelBufferNew(capacity, frame_size) ==
    [frames |-> << >>, capacity |-> capacity, frame_size |-> frame_size]

\* MelBuffer::push_frame: pop the oldest when len >= capacity, then push. The
\* frame's width is not looked at.
PushFrame(buf, frame) ==
    [buf EXCEPT !.frames =
        Append(IF Len(buf.frames) >= buf.capacity
               THEN PopFront(buf.frames) ELSE buf.frames, frame)]

\* MelBuffer::get_flattened: the frames concatenated, oldest first.
RECURSIVE Flatten(_)
Flatten(frames) ==
    IF frames = << >> THEN << >> ELSE Head(frames) \o Flatten(Tail(frames))

GetFlattened(buf) == Flatten(buf.frames)

\* MelBuffer::is_ready.
IsReady(buf) == Len(buf.frames) >= buf.capacity

\* MelBuffer::clear.
MelClear(buf) == [buf EXCEPT !.frames = << >>]

\* --------------------------------------------------------- AudioCapture

\* AudioCapture::with_device on a device whose default input config has the
\* given sample rate and channel count. buffer and resampler stand for the
\* Arc-shared accumulator and Option<FftFixedIn> that start hands to the
\* callback; starting is start's position between stream.play() and the store
\* of is_capturing; orphan is a callback of an earlier stream that is still
\* running, with the accumulator that stream was built with.
NoOrphan == [running |-> FALSE, buffer |-> << >>]

WithDevice(config, rate, channels) ==
    [sample_rate |-> rate, target_sample_rate |-> config.sample_rate,
     channels |-> channels, is_capturing |-> FALSE, stream |-> FALSE,
     starting |-> FALSE, resampler |-> FALSE, buffer |-> << >>,
     orphan |-> NoOrphan]

RECURSIVE SumSeq(_)
SumSeq(q) == IF q = << >> THEN 0 ELSE Head(q) + SumSeq(Tail(q))

\* The callback's conversion of the interleaved device data (f32, where
\* from_sample is the identity): as-is for one channel, else the mean of every
\* frame of `channels` samples, the last frame possibly short.
RECURSIVE MixToMono(_, _)
MixToMono(data, channels) ==
    IF channels <= 1 THEN data
    ELSE IF data = << >> THEN << >>
    ELSE LET n == IF Len(data) < channels THEN Len(data) ELSE channels IN
         << SumSeq(SubSeq(data, 1, n)) \div channels >>
             \o MixToMono(SubSeq(data, n + 1, Len(data)), channels)

\* What FftFixedIn::process does with one drained chunk: an error, or an output
\* vector of a length the resampler decides (possibly empty).
ResampleOutcomes ==
    {[kind |-> "Err", len |-> 0], [kind |-> "Ok", len |-> 0], [kind |-> "Ok", len |-> 1]}

\* A resampled vector: new sample values, here all written 0.
Resampled(len) == [i \in 1..len |-> 0]

\* One turn of the callback's while loop on a buffer holding a whole chunk:
\* the chunk is drained and resampled or forwarded; sent is the vector passed
\* to tx.send, << >> when nothing is sent.
DrainOne(c, outcome) ==
    LET chunk == SubSeq(c.buffer, 1, CaptureChunk)
        rest == SubSeq(c.buffer, CaptureChunk + 1, Len(c.buffer))
        output == IF c.resampler
                  THEN IF outcome.kind = "Err" THEN << >> ELSE Resampled(outcome.len)
                  ELSE chunk
    IN [cap |-> [c EXCEPT !.buffer = rest], sent |-> output]

\* AudioCapture::stop: the flag is cleared and the stream dropped.
CaptureStop(c) == [c EXCEPT !.is_capturing = FALSE, !.stream = FALSE]

\* ------------------------------------------------------------------ state

VARIABLES
    sm,        \* a standalone VoiceStateMachine
    clock,     \* the monotonic clock behind Instant::now()
    lastOp,    \* history: the last call made on sm, with the state it was made in
    episode,   \* history: samples passed to add_audio since sm last entered Listening
    guard,     \* commands: Mutex<Option<VoiceController>>, 0 for None, else the session
    host,      \* the command holding the mutex: start_voice_listening's position
    nsessions, \* controllers built so far
    ctl,       \* per session: the Arc<RwLock<..>> state shared with the thread
    audio_tx,  \* per session: VoiceController::audio_tx is Some
    chan,      \* per session: the chunks queued in the unbounded channel
    cap,       \* per session: the AudioCapture built by start
    produced,  \* per session: chunks the capture has sent
    th,        \* per session: the processing thread, its locals, VAD and detector
    epRecv,    \* history, per session: chunks received in the current Listening episode
    out,       \* what the last step returned to the host and emitted to the frontend
    svad,      \* a standalone VoiceActivityDetector
    vadOp,     \* history: the last call made on svad and the run of silence it is in
    abuf,      \* a standalone AudioBuffer
    mbuf,      \* a standalone MelBuffer
    bufOp,     \* history: what has been pushed into abuf and mbuf
    chosen,    \* history: the device last passed to set_input_device
    acap,      \* a standalone AudioCapture with the buffer its callback owns
    cb,        \* the invocation of acap's data callback that is in flight
    sink,      \* the chunks acap's callback has sent to its channel
    capOp,     \* history: what acap's callbacks were fed, and its stop calls
    sdet,      \* a standalone WakeWordDetector
    detOp,     \* history: the last call made on sdet and what it returned
    lk         \* the command-layer mutex and one controller's RwLock, with the
               \* position of every command invocation and of the thread

fsmVars == <<sm, clock, lastOp, episode>>

ctlVars == <<guard, host, nsessions, ctl, audio_tx, chan, cap, produced, th,
             epRecv, out, chosen, lk>>

unitVars == <<svad, vadOp, abuf, mbuf, bufOp>>

capVars == <<acap, cb, sink, capOp>>

detVars == <<sdet, detOp>>

vars == <<sm, clock, lastOp, episode, guard, host, nsessions, ctl, audio_tx, chan,
          cap, produced, th, epRecv, out, svad, vadOp, abuf, mbuf, bufOp,
          chosen, acap, cb, sink, capOp, sdet, detOp, lk>>

NoOp == [op |-> "new", pre |-> NewFsm(0), event |-> Ev("None", ""),
         samples |-> << >>, episode |-> << >>,
         result |-> [new_state |-> "Idle", action |-> NoAction],
         trail |-> << >>]

\* The slots for the controllers start_voice_listening builds, in order.
Sessions == 1..SessionSlots

\* VoiceConfig::default() of the controller scenario: the window, the silence
\* run and the chunk are scaled down together.
CtlConfig ==
    [VoiceConfigWith(CtlMelFrames, CtlSilenceFrames) EXCEPT !.chunk_size = ChunkLen]

\* VoiceControllerInternalState as VoiceController::new builds it.
NewControllerState(now) ==
    [state_machine |-> NewFsm(now), config |-> CtlConfig,
     is_running |-> FALSE, wake_word_enabled |-> TRUE, input_device |-> "None"]

\* An AudioCapture before start / after stop; device is the Option<&str>
\* with_device was given.
NoCapture == [is_capturing |-> FALSE, stream |-> FALSE, device |-> "None"]

\* A thread that has not been spawned. audio_buffer and chunk_count are the
\* thread's ring of received samples and its count of received chunks.
NoThread ==
    [pc |-> "none", config |-> CtlConfig,
     samples |-> << >>, current_state |-> "Idle",
     wake_word_enabled |-> FALSE, score |-> 0, new_state |-> "Idle",
     action |-> NoAction, vad |-> NewVad(CtlConfig),
     det |-> NoDetector(CtlConfig),
     audio_buffer |-> AudioBufferNew(CtlConfig.chunk_size * 2), chunk_count |-> 0,
     exit_by |-> "none", ep_end |-> << >>]

\* An event on the frontend bus: voice-state-changed carries a state,
\* voice-audio-captured the samples, voice-audio-level an RMS level, debug-log
\* a level, a message and the number formatted into the message (a count, or
\* a score to three decimals, which is the score in thousandths).
Event(name, state, audio) ==
    [name |-> name, state |-> state, audio |-> audio, rms |-> ZeroLevel,
     level |-> "none", message |-> "none", arg |-> 0]

\* emit_debug_log(app_handle, level, message): app_handle is always set by
\* start_voice_listening, so the debug-log event is emitted.
DebugLog(level, message, arg) ==
    [Event("debug-log", "Idle", << >>) EXCEPT !.level = level, !.message = message,
                                              !.arg = arg]

\* emit("voice-audio-level", rms).
AudioLevel(rms) == [Event("voice-audio-level", "Idle", << >>) EXCEPT !.rms = rms]

\* calculate_rms of the controller module: the computation of the detector's.
ChunkRms(samples) == CalculateRms(samples)

\* A step that returns nothing to the host and emits nothing. by is "command"
\* for a command that returns in the step, "start" for VoiceController::start
\* on its way, or "thread"; name is the command, or the point of its iteration
\* the thread has reached; pre is the FSM state a command found; score and detected are
\* the operands of a wake-word decision; received is history: the chunks
\* received in the Listening episode a voice-audio-captured event ends.
NoOut == [by |-> "none", name |-> "none", session |-> 0, ret |-> "Ok",
          pre |-> "Idle", events |-> << >>, received |-> << >>,
          score |-> 0, detected |-> FALSE]

CommandOut(name, session, ret) ==
    [NoOut EXCEPT !.by = "command", !.name = name, !.session = session, !.ret = ret]

ThreadOut(session, events) ==
    [NoOut EXCEPT !.by = "thread", !.session = session, !.events = events]

\* VoiceController::start has emitted events and has not returned.
StartOut(session, events) ==
    [NoOut EXCEPT !.by = "start", !.name = "start_voice_listening",
                  !.session = session, !.events = events]

\* The thread has dropped a chunk: the match on the snapshot state did nothing;
\* events are what the iteration emitted before the match.
DroppedOut(session, state, events) ==
    [ThreadOut(session, events) EXCEPT !.name = "dropped", !.pre = state]

\* process_audio returned Err: emit_debug_log("error", "Wake word error: ...").
InferenceErrorOut(session) ==
    [ThreadOut(session, << DebugLog("error", "Wake word error", 0) >>)
        EXCEPT !.name = "inference_error"]

\* The debug-log events of the Ok(Some(score)) arm: the score when it is above
\* 0.2 or on every 50th chunk, and the detection.
ScoreLogs(score, chunk_count, detected) ==
    (IF score > 200 \/ chunk_count % 50 = 0
     THEN << DebugLog("debug", "Wake word score", score) >> ELSE << >>)
    \o (IF detected
        THEN << DebugLog("info", "WAKE WORD DETECTED! Score", score) >> ELSE << >>)

\* The thread has decided on a score: is_detected(score) returned detected.
DecisionOut(session, score, chunk_count, detected) ==
    [ThreadOut(session, ScoreLogs(score, chunk_count, detected))
        EXCEPT !.name = "wake_decision", !.score = score, !.detected = detected]

\* Holders of the locks: command invocations are 1..LockWorkers, LockThread is
\* the processing thread.
LockThread == 0

NoWorker == [pc |-> "idle", kind |-> "none", todo |-> << >>, c |-> 0, made |-> FALSE]

\* A controller that has not been built: its RwLock free, no thread, no
\* sender. draining is the caller of state.write() that has taken the lock's
\* writer bit and waits for the readers to leave; parked are the callers
\* blocked inside state.read() or state.write(); audio_tx is the controller's
\* sender, chunks the length of the channel's queue.
NoController ==
    [writer |-> {}, draining |-> {}, readers |-> {}, parked |-> {},
     t |-> "none", running |-> FALSE, audio_tx |-> FALSE, chunks |-> 0]

\* No command invoked, no controller built, the mutex free. stored is the
\* controller in the command layer's Option, 0 for None; built counts the
\* controllers whose start got past the models check, starts the invocations
\* of start_voice_listening.
NoLocks ==
    [mutex |-> {},
     w |-> [p \in 1..LockWorkers |-> NoWorker],
     c |-> [c \in 1..LockControllers |-> NoController],
     stored |-> 0, built |-> 0, calls |-> 0, starts |-> 0]

CtlInitVars ==
    /\ guard = 0
    /\ host = [pc |-> "idle", session |-> 0]
    /\ nsessions = 0
    /\ ctl = [s \in Sessions |-> NewControllerState(0)]
    /\ audio_tx = [s \in Sessions |-> FALSE]
    /\ chan = [s \in Sessions |-> << >>]
    /\ cap = [s \in Sessions |-> NoCapture]
    /\ produced = [s \in Sessions |-> 0]
    /\ th = [s \in Sessions |-> NoThread]
    /\ epRecv = [s \in Sessions |-> << >>]
    /\ out = NoOut
    /\ chosen = "unset"
    /\ lk = NoLocks

\* The standalone detector and buffers before anything is called on them: a
\* VoiceActivityDetector of VoiceConfig::default(), buffers as in buffer.rs's
\* tests, scaled.
NoVadOp == [op |-> "none", result |-> "none", calls |-> 0, zrun |-> 0, ends |-> 0,
            heard |-> FALSE, loud |-> 0]

NoBufOp == [op |-> "none", pushed |-> << >>, frames |-> << >>, lens |-> << >>]

UnitInitVars ==
    /\ svad = NewVad(VoiceConfigWith(76, 16))
    /\ vadOp = NoVadOp
    /\ abuf = AudioBufferNew(MaxCapacity)
    /\ mbuf = MelBufferNew(MaxCapacity, MelBands)
    /\ bufOp = NoBufOp

\* The standalone AudioCapture before anything is called on it: a 16 kHz mono
\* device opened with VoiceConfig::default().
NoCapOp == [op |-> "with_device", input |-> << >>, fed |-> 0, skipped |-> 0,
            stopped |-> FALSE, after_stop |-> 0]

CapInitVars ==
    /\ acap = WithDevice(VoiceConfigWith(76, 16), 16000, 1)
    /\ cb = "idle"
    /\ sink = << >>
    /\ capOp = NoCapOp

\* The standalone WakeWordDetector before anything is called on it: built with
\* VoiceConfig::default().
NoDetOp == [op |-> "new", kind |-> "None", score |-> 0, detected |-> FALSE,
            since |-> 0, failed |-> FALSE, mel |-> "none", frames |-> 0]

DetInitVars ==
    /\ sdet = NewDetector(VoiceConfigWith(76, 16))
    /\ detOp = NoDetOp

\* ------------------------------------------------- the standalone machine

FsmInitVars ==
    /\ sm = NewFsm(0)
    /\ clock = 0
    /\ lastOp = NoOp
    /\ episode = << >>

FsmInit == FsmInitVars /\ CtlInitVars /\ UnitInitVars /\ CapInitVars /\ DetInitVars

\* Entering Listening starts a new episode; every add_audio call is recorded.
EpisodeAfter(pre, post, ep) ==
    IF post.state = "Listening" /\ pre.state # "Listening" THEN << >> ELSE ep

\* History: the types of the last TrailLen actions returned since the machine
\* last was in Idle.
TrailAfter(trail, result) ==
    IF result.new_state = "Idle" THEN << >>
    ELSE IF result.action = NoAction THEN trail
    ELSE LET t == Append(trail, result.action.type) IN
         IF Len(t) > TrailLen THEN Tail(t) ELSE t

FsmTransition(event) ==
    LET r == Transition(sm, event, clock) IN
    /\ sm' = r.fsm
    /\ lastOp' = [op |-> "transition", pre |-> sm, event |-> event,
                  samples |-> << >>, episode |-> episode, result |-> r.result,
                  trail |-> TrailAfter(lastOp.trail, r.result)]
    /\ episode' = EpisodeAfter(sm, r.fsm, episode)
    /\ UNCHANGED <<clock, ctlVars, unitVars, capVars, detVars>>

FsmAddAudio(samples) ==
    /\ Len(sm.captured_audio) + Len(samples) <= MaxAudio
    /\ Len(episode) + Len(samples) <= MaxAudio
    /\ sm' = AddAudio(sm, samples)
    /\ lastOp' = [op |-> "add_audio", pre |-> sm, event |-> Ev("None", ""),
                  samples |-> samples, episode |-> episode,
                  result |-> [new_state |-> sm.state, action |-> NoAction],
                  trail |-> lastOp.trail]
    /\ episode' = episode \o samples
    /\ UNCHANGED <<clock, ctlVars, unitVars, capVars, detVars>>

FsmReset ==
    /\ sm' = Reset(sm, clock)
    /\ lastOp' = [op |-> "reset", pre |-> sm, event |-> Ev("None", ""),
                  samples |-> << >>, episode |-> episode,
                  result |-> [new_state |-> "Idle", action |-> NoAction],
                  trail |-> << >>]
    /\ episode' = episode
    /\ UNCHANGED <<clock, ctlVars, unitVars, capVars, detVars>>

Tick ==
    /\ clock < MaxClock
    /\ clock' = clock + 1
    /\ UNCHANGED <<sm, lastOp, episode, ctlVars, unitVars, capVars, detVars>>

FsmNext ==
    \/ \E event \in VoiceEvents : FsmTransition(event)
    \/ \E samples \in FsmChunks : FsmAddAudio(samples)
    \/ FsmReset
    \/ Tick

SpecFsm == FsmInit /\ [][FsmNext]_vars

\* ------------------------------------------------------------ the controller

\* Chunks the capture delivers: ChunkLen samples of one amplitude (silence, or
\* speech quiet enough that one chunk of silence brings the level down again).
Amplitudes == {0, 40}

CtlChunks == {[i \in 1..ChunkLen |-> a] : a \in Amplitudes}

\* Some sender of the session's channel is alive: the controller's audio_tx or
\* the clone moved into the capture stream's callback.
SendersAlive(s) == audio_tx[s] \/ cap[s].stream

\* The capture kept alive past the end of start.
DropCapture_Leak(c) == c

\* Drop for AudioCapture: stop() clears the flag and drops the stream.
DropCapture(c) == [c EXCEPT !.is_capturing = FALSE, !.stream = FALSE]

\* A command that reports a state only when it changed.
CommandEmits_OnChange(pre_state, result) ==
    IF result.new_state # pre_state
    THEN << Event("voice-state-changed", result.new_state, << >>) >>
    ELSE << >>

\* What manual_trigger, cancel, transcription_complete, response_ready and
\* speech_complete emit after their transition (app_handle is always set by
\* start_voice_listening).
CommandEmits(pre_state, result) ==
    << Event("voice-state-changed", result.new_state, << >>) >>

\* The host commands that inject an event, with the events they inject.
CommandEvents ==
    {<<"trigger_voice_listening", Ev("ManualTrigger", "")>>,
     <<"cancel_voice_operation", Ev("Cancel", "")>>,
     <<"voice_speech_complete", Ev("SpeechComplete", "")>>}
    \cup {<<"voice_transcription_complete", Ev("TranscriptionComplete", x)>> : x \in Texts}
    \cup {<<"voice_response_ready", Ev("ResponseReady", x)>> : x \in Texts}

CommandNames ==
    {c[1] : c \in CommandEvents} \cup {"set_wake_word_enabled", "set_wake_word_sensitivity"}

\* The Listening episode's received chunks after the machine went pre -> post.
EpRecvAfter(pre_state, post_state, ep) ==
    IF post_state = "Listening" /\ pre_state # "Listening" THEN << >> ELSE ep

\* start_voice_listening builds a controller unless one is stored and running.
StartWanted == IF guard = 0 THEN TRUE ELSE ~ctl[guard].is_running

\* start_voice_listening with a running controller: returns Ok at once.
StartAlreadyRunning ==
    /\ host.pc = "idle"
    /\ ~StartWanted
    /\ out' = CommandOut("start_voice_listening", guard, "Ok")
    /\ UNCHANGED <<fsmVars, unitVars, capVars, detVars, lk, chosen,
                   guard, host, nsessions, ctl, audio_tx, chan, cap,
                   produced, th, epRecv>>

\* VoiceController::start, models directory missing: Err before anything is built.
StartModelsMissing ==
    /\ host.pc = "idle"
    /\ StartWanted
    /\ out' = [CommandOut("start_voice_listening", 0, "ModelsNotFound") EXCEPT
                  !.events = << DebugLog("info", "Starting voice system", 0),
                                DebugLog("error", "Models directory not found", 0) >>]
    /\ UNCHANGED <<fsmVars, unitVars, capVars, detVars, lk, chosen,
                   guard, host, nsessions, ctl, audio_tx, chan, cap,
                   produced, th, epRecv>>

\* VoiceController::new and start up to thread::spawn: the channel is created,
\* audio_tx stored, is_running set, the processing thread spawned with the
\* config snapshot.
StartSpawnWithin(limit) ==
    /\ host.pc = "idle"
    /\ StartWanted
    /\ nsessions < limit
    /\ LET s == nsessions + 1
           fresh == NewControllerState(clock)
       IN
       /\ nsessions' = s
       /\ ctl' = [ctl EXCEPT ![s] = [fresh EXCEPT !.is_running = TRUE]]
       /\ audio_tx' = [audio_tx EXCEPT ![s] = TRUE]
       /\ chan' = [chan EXCEPT ![s] = << >>]
       /\ th' = [th EXCEPT ![s] = [NoThread EXCEPT !.pc = "init",
                                                   !.config = fresh.config]]
       /\ host' = [pc |-> "spawned", session |-> s]
       /\ out' = StartOut(s, << DebugLog("info", "Starting voice system", 0),
                                DebugLog("info", "Checking models", 0),
                                DebugLog("info", "Spawning audio processing thread...", 0) >>)
    /\ UNCHANGED <<fsmVars, unitVars, capVars, detVars, lk, chosen,
                   guard, cap, produced, epRecv>>

\* The controller scenario builds MaxSessions controllers, the two-session
\* scenario SessionSlots.
StartSpawn == StartSpawnWithin(MaxSessions)

StartSpawnAgain == StartSpawnWithin(SessionSlots)

\* The errors of AudioCapture::with_device, given the device name read from
\* the controller state, and of AudioCapture::start.
CaptureErrors(device) ==
    (IF device = "None" THEN {"NoInputDevice"} ELSE {"DeviceNotFound"})
    \cup {"ConfigError", "ResamplerError", "StreamError"}

\* AudioCapture::with_device or AudioCapture::start fails: start returns the
\* error through `?` and start_voice_listening drops the controller.
StartCaptureErr(why) ==
    /\ host.pc = "spawned"
    /\ why \in CaptureErrors(ctl[host.session].input_device)
    /\ audio_tx' = [audio_tx EXCEPT ![host.session] = FALSE]
    /\ host' = [pc |-> "idle", session |-> 0]
    /\ out' = CommandOut("start_voice_listening", host.session, why)
    /\ UNCHANGED <<fsmVars, unitVars, capVars, detVars, lk, chosen,
                   guard, nsessions, ctl, chan, cap, produced, th, epRecv>>

\* AudioCapture::with_device, given the input_device read from the controller
\* state, and AudioCapture::start succeed: the stream plays and is_capturing
\* is set.
StartCaptureOk ==
    /\ host.pc = "spawned"
    /\ cap' = [cap EXCEPT ![host.session] =
                  [is_capturing |-> TRUE, stream |-> TRUE,
                   device |-> ctl[host.session].input_device]]
    /\ host' = [host EXCEPT !.pc = "capturing"]
    /\ out' = NoOut
    /\ UNCHANGED <<fsmVars, unitVars, capVars, detVars, lk, chosen,
                   guard, nsessions, ctl, audio_tx, chan, produced, th,
                   epRecv>>

\* start returns Ok: its local audio_capture goes out of scope and is dropped;
\* start_voice_listening stores the controller.
StartReturn ==
    /\ host.pc = "capturing"
    /\ cap' = [cap EXCEPT ![host.session] = DropCapture(cap[host.session])]
    /\ guard' = host.session
    /\ host' = [pc |-> "idle", session |-> 0]
    /\ out' = CommandOut("start_voice_listening", host.session, "Ok")
    /\ UNCHANGED <<fsmVars, unitVars, capVars, detVars, lk, chosen,
                   nsessions, ctl, audio_tx, chan, produced, th, epRecv>>

\* The stream's data callback delivers one chunk: it returns at once unless
\* is_capturing is set; a send to a dropped receiver is ignored.
CallbackWithin(s, chunk, limit) ==
    /\ cap[s].stream
    /\ cap[s].is_capturing
    /\ produced[s] < limit
    /\ produced' = [produced EXCEPT ![s] = @ + 1]
    /\ chan' = [chan EXCEPT ![s] = IF th[s].pc = "exited" THEN @ ELSE Append(@, chunk)]
    /\ out' = NoOut
    /\ UNCHANGED <<fsmVars, unitVars, capVars, detVars, lk, chosen,
                   guard, host, nsessions, ctl, audio_tx, cap, th, epRecv>>

\* stop_voice_listening: VoiceController::stop, then the controller is dropped.
StopVoiceListening ==
    /\ host.pc = "idle"
    /\ guard # 0
    /\ ctl' = [ctl EXCEPT ![guard].is_running = FALSE]
    /\ audio_tx' = [audio_tx EXCEPT ![guard] = FALSE]
    /\ out' = CommandOut("stop_voice_listening", guard, "Ok")
    /\ guard' = 0
    /\ UNCHANGED <<fsmVars, unitVars, capVars, detVars, lk, chosen,
                   host, nsessions, chan, cap, produced, th, epRecv>>

\* stop_voice_listening with no controller stored: Ok, nothing changes.
StopNotStarted ==
    /\ host.pc = "idle"
    /\ guard = 0
    /\ out' = CommandOut("stop_voice_listening", 0, "Ok")
    /\ UNCHANGED <<fsmVars, unitVars, capVars, detVars, lk, chosen,
                   guard, host, nsessions, ctl, audio_tx, chan, cap,
                   produced, th, epRecv>>

\* trigger_voice_listening, cancel_voice_operation, voice_transcription_complete,
\* voice_response_ready, voice_speech_complete on a stored controller: the
\* transition and the emit happen under the write lock.
CmdTransition(name, event) ==
    /\ host.pc = "idle"
    /\ guard # 0
    /\ LET pre == ctl[guard].state_machine
           r == Transition(pre, event, clock)
       IN
       /\ ctl' = [ctl EXCEPT ![guard].state_machine = r.fsm]
       /\ epRecv' = [epRecv EXCEPT ![guard] = EpRecvAfter(pre.state, r.fsm.state, @)]
       /\ out' = [CommandOut(name, guard, "Ok") EXCEPT
                     !.pre = pre.state,
                     !.events = CommandEmits(pre.state, r.result)]
    /\ UNCHANGED <<fsmVars, unitVars, capVars, detVars, lk, chosen,
                   guard, host, nsessions, audio_tx, chan, cap, produced, th>>

\* set_wake_word_enabled on a stored controller.
SetWakeWordEnabled(enabled) ==
    /\ host.pc = "idle"
    /\ guard # 0
    /\ ctl' = [ctl EXCEPT ![guard].wake_word_enabled = enabled]
    /\ out' = CommandOut("set_wake_word_enabled", guard, "Ok")
    /\ UNCHANGED <<fsmVars, unitVars, capVars, detVars, lk, chosen,
                   guard, host, nsessions, audio_tx, chan, cap, produced,
                   th, epRecv>>

\* Sensitivities the frontend passes, in tenths: 5.0 is clamped to 3.0.
Sensitivities == {50}

\* f32::clamp.
Clamp(x, lo, hi) == IF x < lo THEN lo ELSE IF x > hi THEN hi ELSE x

\* set_wake_word_sensitivity on a stored controller: VoiceController::set_sensitivity
\* writes the clamped value into the shared config.
SetWakeWordSensitivity(sensitivity) ==
    /\ host.pc = "idle"
    /\ guard # 0
    /\ ctl' = [ctl EXCEPT ![guard].config.sensitivity = Clamp(sensitivity, 1, 30)]
    /\ out' = CommandOut("set_wake_word_sensitivity", guard, "Ok")
    /\ UNCHANGED <<fsmVars, unitVars, capVars, detVars, lk, chosen,
                   guard, host, nsessions, audio_tx, chan, cap, produced,
                   th, epRecv>>

\* Devices the frontend passes to set_input_device: None or a name.
InputDevices == {"None", "usb-mic"}

\* set_input_device on a stored controller: VoiceController::set_input_device
\* writes the name into the shared state.
SetInputDevice(device_name) ==
    /\ host.pc = "idle"
    /\ guard # 0
    /\ ctl' = [ctl EXCEPT ![guard].input_device = device_name]
    /\ chosen' = device_name
    /\ out' = CommandOut("set_input_device", guard, "Ok")
    /\ UNCHANGED <<fsmVars, unitVars, capVars, detVars, lk, guard, host, nsessions, audio_tx, chan,
                   cap, produced, th, epRecv>>

\* set_input_device with no controller stored: Ok, and nothing is stored.
SetInputDeviceNotStarted(device_name) ==
    /\ host.pc = "idle"
    /\ guard = 0
    /\ chosen' = device_name
    /\ out' = CommandOut("set_input_device", 0, "Ok")
    /\ UNCHANGED <<fsmVars, unitVars, capVars, detVars, lk, guard, host, nsessions, ctl, audio_tx,
                   chan, cap, produced, th, epRecv>>

\* get_voice_state reading the last controller built, stored or not.
GetVoiceState_Unguarded ==
    IF nsessions = 0 THEN "Idle" ELSE ctl[nsessions].state_machine.state

\* get_voice_state: the stored controller's FSM state, Idle without one.
GetVoiceState == IF guard = 0 THEN "Idle" ELSE ctl[guard].state_machine.state

\* is_voice_running: the stored controller's is_running, false without one.
IsVoiceRunning == IF guard = 0 THEN FALSE ELSE ctl[guard].is_running

\* Any of these commands with no controller stored: Err("Voice system not started").
CmdNotStarted(name) ==
    /\ host.pc = "idle"
    /\ guard = 0
    /\ out' = CommandOut(name, 0, "Voice system not started")
    /\ UNCHANGED <<fsmVars, unitVars, capVars, detVars, lk, chosen,
                   guard, host, nsessions, ctl, audio_tx, chan, cap,
                   produced, th, epRecv>>

\* ------------------------------------------------- the processing thread

\* Back at the top of the loop: the locals of the last iteration are gone.
AtRecv(t) ==
    [t EXCEPT !.pc = "recv", !.samples = << >>, !.current_state = "Idle",
              !.wake_word_enabled = FALSE, !.score = 0, !.new_state = "Idle",
              !.action = NoAction, !.ep_end = << >>]

\* What the thread emits from its start to the top of the loop.
InitEvents(loaded) ==
    << DebugLog("info", "Audio processing thread started", 0),
       DebugLog("info", "Loading wake word detector models...", 0) >>
    \o (IF loaded
        THEN << DebugLog("info", "Wake word detector initialized successfully", 0) >>
        ELSE << DebugLog("error", "Failed to init wake word detector", 0),
                Event("voice-error", "Idle", << >>) >>)
    \o << DebugLog("info", "Entering audio processing loop, waiting for audio...", 0) >>

\* The debug-log event at the top of an iteration: the first chunk, and every
\* 100th.
CountLogs(chunk_count, samples) ==
    IF chunk_count = 1
    THEN << DebugLog("info", "First audio chunk received", Len(samples)) >>
    ELSE IF chunk_count % 100 = 0
    THEN << DebugLog("debug", "Processed audio chunks", chunk_count) >>
    ELSE << >>

\* What an iteration emits before the match: the count log, then "stopping"
\* when is_running was read false, else the level of the chunk.
RecvEvents(chunk_count, samples, is_running) ==
    CountLogs(chunk_count, samples)
    \o (IF is_running THEN << AudioLevel(ChunkRms(samples)) >>
        ELSE << DebugLog("info", "Voice system stopping...", 0) >>)

\* A dispatch that runs the wake-word arm without looking for the detector.
DispatchPc_NoEngineCheck(current_state, wake_word_enabled, det) ==
    IF current_state = "Idle"
    THEN IF wake_word_enabled THEN "idle" ELSE "recv"
    ELSE IF current_state = "Listening" THEN "listen_add"
    ELSE "recv"

\* A dispatch that treats every state but Idle as Listening.
DispatchPc_ListenElse(current_state, wake_word_enabled, det) ==
    IF current_state = "Idle"
    THEN IF wake_word_enabled /\ det.present THEN "idle" ELSE "recv"
    ELSE "listen_add"

\* Where the match on the snapshot sends the chunk.
DispatchPc(current_state, wake_word_enabled, det) ==
    IF current_state = "Idle"
    THEN IF wake_word_enabled /\ det.present THEN "idle" ELSE "recv"
    ELSE IF current_state = "Listening" THEN "listen_add"
    ELSE "recv"

\* The thread starts: WakeWordDetector::new succeeds or fails (then voice-error
\* is emitted and the thread goes on without a detector); the VAD, the sample
\* ring and the chunk counter are built and the loop is entered.
ThInit(s, loaded) ==
    /\ th[s].pc = "init"
    /\ th' = [th EXCEPT ![s] = [@ EXCEPT !.pc = "recv",
                  !.det = IF loaded THEN NewDetector(th[s].config)
                          ELSE NoDetector(th[s].config),
                  !.vad = NewVad(th[s].config),
                  !.audio_buffer = AudioBufferNew(th[s].config.chunk_size * 2),
                  !.chunk_count = 0]]
    /\ out' = ThreadOut(s, InitEvents(loaded))
    /\ UNCHANGED <<fsmVars, unitVars, capVars, detVars, lk, chosen,
                   guard, host, nsessions, ctl, audio_tx, chan, cap,
                   produced, epRecv>>

\* audio_rx.recv() yields a chunk: it is counted, the snapshot is read under
\* the read lock and the loop left when is_running is false; else the chunk
\* goes into the sample ring, its level is emitted and the match dispatches on
\* the state read.
ThRecvChunk(s) ==
    /\ th[s].pc = "recv"
    /\ chan[s] # << >>
    /\ chan' = [chan EXCEPT ![s] = Tail(@)]
    /\ LET samples == Head(chan[s])
           c == ctl[s]
           current_state == c.state_machine.state
           chunk_count == th[s].chunk_count + 1
           events == RecvEvents(chunk_count, samples, c.is_running)
       IN
       IF ~c.is_running
       THEN /\ th' = [th EXCEPT ![s] = [AtRecv(@) EXCEPT !.pc = "exited",
                                                         !.exit_by = "is_running",
                                                         !.chunk_count = chunk_count]]
            /\ out' = ThreadOut(s, events)
            /\ UNCHANGED epRecv
       ELSE /\ th' = [th EXCEPT ![s] =
                        LET pc == DispatchPc(current_state, c.wake_word_enabled, @.det)
                            t == [@ EXCEPT !.chunk_count = chunk_count,
                                           !.audio_buffer = PushSamples(@, samples)]
                        IN
                        IF pc = "recv" THEN AtRecv(t)
                        ELSE [t EXCEPT !.pc = pc, !.samples = samples,
                                       !.current_state = current_state,
                                       !.wake_word_enabled = c.wake_word_enabled]]
            /\ out' = IF DispatchPc(current_state, c.wake_word_enabled, th[s].det) = "recv"
                      THEN DroppedOut(s, current_state, events)
                      ELSE ThreadOut(s, events)
            /\ epRecv' = [epRecv EXCEPT ![s] =
                            IF current_state = "Listening" THEN @ \o samples ELSE @]
    /\ UNCHANGED <<fsmVars, unitVars, capVars, detVars, lk, chosen,
                   guard, host, nsessions, ctl, audio_tx, cap, produced>>

\* audio_rx.recv() yields None: the queue is empty and every sender is dropped.
ThRecvClosed(s) ==
    /\ th[s].pc = "recv"
    /\ chan[s] = << >>
    /\ ~SendersAlive(s)
    /\ th' = [th EXCEPT ![s] = [AtRecv(@) EXCEPT !.pc = "exited", !.exit_by = "closed"]]
    /\ out' = NoOut
    /\ UNCHANGED <<fsmVars, unitVars, capVars, detVars, lk, chosen,
                   guard, host, nsessions, ctl, audio_tx, chan, cap,
                   produced, epRecv>>

\* An Idle arm in which a process_audio error ends the loop.
IdleArm_ErrorEndsLoop(t, outcome) ==
    LET r == ProcessAudio(t.det, outcome) IN
    IF r.kind = "Some" /\ IsDetected(r.det, r.score)
    THEN [t EXCEPT !.pc = "wake_tr", !.det = r.det, !.score = r.score]
    ELSE IF r.kind = "Err"
    THEN [AtRecv(t) EXCEPT !.det = r.det, !.pc = "exited", !.exit_by = "closed"]
    ELSE [AtRecv(t) EXCEPT !.det = r.det]

\* The thread's locals after the match on process_audio's result: on a score
\* above the threshold it goes on to the transition, otherwise (low score,
\* Ok(None), Err) the iteration ends.
IdleArm(t, outcome) ==
    LET r == ProcessAudio(t.det, outcome) IN
    IF r.kind = "Some" /\ IsDetected(r.det, r.score)
    THEN [t EXCEPT !.pc = "wake_tr", !.det = r.det, !.score = r.score]
    ELSE [AtRecv(t) EXCEPT !.det = r.det]

\* Snapshot Idle, wake word enabled, detector present: process_audio, and on a
\* score above the threshold go on to the transition.
ThIdle(s, outcome) ==
    /\ th[s].pc = "idle"
    /\ th' = [th EXCEPT ![s] = IdleArm(@, outcome)]
    /\ out' = LET r == ProcessAudio(th[s].det, outcome) IN
              IF r.kind = "Some"
              THEN DecisionOut(s, r.score, th[s].chunk_count,
                               IsDetected(r.det, r.score))
              ELSE IF r.kind = "Err" THEN InferenceErrorOut(s)
              ELSE NoOut
    /\ UNCHANGED <<fsmVars, unitVars, capVars, detVars, lk, chosen,
                   guard, host, nsessions, ctl, audio_tx, chan, cap,
                   produced, epRecv>>

\* Under the write lock: transition(WakeWordDetected); the state is read back.
ThWakeTransition(s) ==
    /\ th[s].pc = "wake_tr"
    /\ LET pre == ctl[s].state_machine
           r == Transition(pre, Ev("WakeWordDetected", ""), clock)
       IN
       /\ ctl' = [ctl EXCEPT ![s].state_machine = r.fsm]
       /\ epRecv' = [epRecv EXCEPT ![s] = EpRecvAfter(pre.state, r.fsm.state, @)]
       /\ th' = [th EXCEPT ![s] = [@ EXCEPT !.pc = "emit_wake",
                                            !.new_state = r.fsm.state]]
    /\ out' = NoOut
    /\ UNCHANGED <<fsmVars, unitVars, capVars, detVars, lk, chosen,
                   guard, host, nsessions, audio_tx, chan, cap, produced>>

\* emit("voice-wake-word", score).
ThEmitWake(s) ==
    /\ th[s].pc = "emit_wake"
    /\ out' = ThreadOut(s, << Event("voice-wake-word", "Idle", << >>) >>)
    /\ th' = [th EXCEPT ![s].pc = "emit_state_w"]
    /\ UNCHANGED <<fsmVars, unitVars, capVars, detVars, lk, chosen,
                   guard, host, nsessions, ctl, audio_tx, chan, cap,
                   produced, epRecv>>

\* emit("voice-state-changed", new_state), then vad.reset().
ThEmitStateWake(s) ==
    /\ th[s].pc = "emit_state_w"
    /\ out' = [ThreadOut(s, << Event("voice-state-changed", th[s].new_state, << >>) >>)
                  EXCEPT !.name = "wake_handled"]
    /\ th' = [th EXCEPT ![s] = [AtRecv(@) EXCEPT !.vad = VadReset(@)]]
    /\ UNCHANGED <<fsmVars, unitVars, capVars, detVars, lk, chosen,
                   guard, host, nsessions, ctl, audio_tx, chan, cap,
                   produced, epRecv>>

\* Snapshot Listening: add_audio under the write lock, then vad.process.
ThListenAdd(s) ==
    /\ th[s].pc = "listen_add"
    /\ out' = NoOut
    /\ UNCHANGED <<fsmVars, unitVars, capVars, detVars, lk, chosen,
                   guard, host, nsessions, audio_tx, chan, cap, produced,
                   epRecv>>
    /\ ctl' = [ctl EXCEPT ![s].state_machine = AddAudio(@, th[s].samples)]
    /\ \E v \in {VadProcess(th[s].vad, th[s].samples)} :
          th' = [th EXCEPT ![s] =
                    IF v.result = "SpeechEnd"
                    THEN [@ EXCEPT !.pc = "vad_tr", !.vad = v.vad]
                    ELSE [AtRecv(@) EXCEPT !.vad = v.vad]]

\* Under the write lock: transition(VadSpeechEnd); the result is kept.
ThVadTransition(s) ==
    /\ th[s].pc = "vad_tr"
    /\ LET r == Transition(ctl[s].state_machine, Ev("VadSpeechEnd", ""), clock) IN
       /\ ctl' = [ctl EXCEPT ![s].state_machine = r.fsm]
       /\ th' = [th EXCEPT ![s] = [@ EXCEPT !.pc = "emit_state_v",
                                            !.new_state = r.result.new_state,
                                            !.action = r.result.action,
                                            !.ep_end = epRecv[s]]]
    /\ out' = NoOut
    /\ UNCHANGED <<fsmVars, unitVars, capVars, detVars, lk, chosen,
                   guard, host, nsessions, audio_tx, chan, cap, produced,
                   epRecv>>

\* emit("voice-state-changed", new_state); without a SendToStt action the
\* iteration ends with vad.reset() and detector.reset().
ThEmitStateVad(s) ==
    /\ th[s].pc = "emit_state_v"
    /\ out' = [ThreadOut(s, << Event("voice-state-changed", th[s].new_state, << >>) >>)
                  EXCEPT !.name = IF th[s].action.type = "SendToStt"
                                  THEN "none" ELSE "speech_end_handled"]
    /\ th' = [th EXCEPT ![s] =
                IF @.action.type = "SendToStt"
                THEN [@ EXCEPT !.pc = "emit_audio"]
                ELSE [AtRecv(@) EXCEPT !.vad = VadReset(@), !.det = DetReset(@)]]
    /\ UNCHANGED <<fsmVars, unitVars, capVars, detVars, lk, chosen,
                   guard, host, nsessions, ctl, audio_tx, chan, cap,
                   produced, epRecv>>

\* emit("voice-audio-captured", audio), then vad.reset() and detector.reset().
ThEmitAudio(s) ==
    /\ th[s].pc = "emit_audio"
    /\ out' = [ThreadOut(s, << Event("voice-audio-captured", "Idle",
                                     th[s].action.audio) >>)
                  EXCEPT !.received = th[s].ep_end, !.name = "speech_end_handled"]
    /\ th' = [th EXCEPT ![s] = [AtRecv(@) EXCEPT !.vad = VadReset(@),
                                                 !.det = DetReset(@)]]
    /\ UNCHANGED <<fsmVars, unitVars, capVars, detVars, lk, chosen,
                   guard, host, nsessions, ctl, audio_tx, chan, cap,
                   produced, epRecv>>

ThreadNext ==
    \E s \in Sessions :
        \/ \E loaded \in BOOLEAN : ThInit(s, loaded)
        \/ ThRecvChunk(s)
        \/ ThRecvClosed(s)
        \/ \E outcome \in InferenceOutcomes : ThIdle(s, outcome)
        \/ ThWakeTransition(s)
        \/ ThEmitWake(s)
        \/ ThEmitStateWake(s)
        \/ ThListenAdd(s)
        \/ ThVadTransition(s)
        \/ ThEmitStateVad(s)
        \/ ThEmitAudio(s)

\* The commands of the controller scenario. set_input_device is a step of the
\* two-session scenario, SessionsNext: it writes input_device of the stored
\* controller, which VoiceController::start has read before the controller
\* was stored.
HostNext ==
    \/ StartAlreadyRunning
    \/ StartModelsMissing
    \/ StartSpawn
    \/ \E why \in CaptureErrors("None") \cup CaptureErrors("usb-mic") :
          StartCaptureErr(why)
    \/ StartCaptureOk
    \/ StartReturn
    \/ StopVoiceListening
    \/ StopNotStarted
    \/ \E c \in CommandEvents : CmdTransition(c[1], c[2])
    \/ \E enabled \in BOOLEAN : SetWakeWordEnabled(enabled)
    \/ \E sensitivity \in Sensitivities : SetWakeWordSensitivity(sensitivity)
    \/ \E name \in CommandNames : CmdNotStarted(name)

\* The controller scenario delivers MaxChunks chunks per session.
Callback(s, chunk) == CallbackWithin(s, chunk, MaxChunks)

CaptureNext == \E s \in Sessions, chunk \in CtlChunks : Callback(s, chunk)

Init == FsmInitVars /\ CtlInitVars /\ UnitInitVars /\ CapInitVars /\ DetInitVars

Next == HostNext \/ ThreadNext \/ CaptureNext

Spec == Init /\ [][Next]_vars

\* The operating system schedules a spawned thread: it is not left waiting
\* forever while it has a step to take.
FairSpec == Spec /\ WF_vars(ThreadNext)

\* ------------------------------------------------------------ the locks

\* Everything but lk.
lockFrame == <<fsmVars, unitVars, capVars, detVars, guard, host, nsessions, ctl,
               audio_tx, chan, cap, produced, th, epRecv, out, chosen>>

\* Commands by the locks they take: start_voice_listening; stop_voice_listening;
\* the commands that inject an event or change a setting (write lock);
\* get_voice_state and is_voice_running (read lock).
LockCommands == {"start", "stop", "event", "query"}

\* The RwLock sections of a command on the stored controller, once it holds
\* the mutex: start_voice_listening calls is_running(), the other commands
\* take one lock; with no controller stored none takes any.
LockSections(kind, stored) ==
    IF stored = 0 THEN << >>
    ELSE IF kind \in {"start", "query"} THEN <<"r">>
    ELSE <<"w">>

\* The RwLock sections of VoiceController::start after the models check: it
\* reads the config, writes is_running and reads the input device.
StartSections == <<"r", "w", "r">>

\* A guard that is never dropped.
DropGuard_Kept(holders, p) == holders

\* A lock guard goes out of scope or is dropped.
DropGuard(holders, p) == holders \ {p}

\* The points where the thread is about to call, or is blocked in,
\* state.write().
ThreadWriteWaits == {"want_wake", "want_add", "want_tr"}

\* RwLock::read succeeds: the writer bit is clear. It is set while a writer
\* holds the lock and while one waits for the readers to leave; a writer
\* blocked behind another writer has not set it.
CanRead(l) == l.writer = {} /\ l.draining = {}

\* RwLock::write succeeds: nobody holds the lock.
CanWrite(l) == l.writer = {} /\ l.draining = {} /\ l.readers = {}

\* state.read() called, or tried again, by p: p gets the lock or is blocked
\* inside the call.
LockShared(l, p) ==
    IF CanRead(l)
    THEN [l EXCEPT !.readers = @ \cup {p}, !.parked = @ \ {p}]
    ELSE [l EXCEPT !.parked = @ \cup {p}]

\* state.write() called, or tried again, by p: with the writer bit clear p
\* sets it and has the lock once no reader is left; until then, and while
\* somebody else has the bit, p is blocked inside the call.
LockExclusive(l, p) ==
    IF l.writer = {} /\ l.draining \subseteq {p}
    THEN IF l.readers = {}
         THEN [l EXCEPT !.writer = {p}, !.draining = {}, !.parked = @ \ {p}]
         ELSE [l EXCEPT !.draining = {p}, !.parked = @ \cup {p}]
    ELSE [l EXCEPT !.parked = @ \cup {p}]

\* The frontend invokes a command.
LkInvoke(p, kind) ==
    /\ lk.w[p].pc = "idle"
    /\ lk.calls < MaxLockCalls
    /\ kind = "start" => lk.starts < LockControllers
    /\ lk' = [lk EXCEPT !.w[p] = [NoWorker EXCEPT !.pc = "lock", !.kind = kind],
                        !.calls = @ + 1,
                        !.starts = IF kind = "start" THEN @ + 1 ELSE @]
    /\ UNCHANGED lockFrame

\* state.0.lock() returns: the command goes on to its sections on the stored
\* controller, start_voice_listening with none stored to a new controller.
LkMutex(p) ==
    /\ lk.w[p].pc = "lock"
    /\ lk.mutex = {}
    /\ lk' = [lk EXCEPT !.mutex = {p},
                        !.w[p].pc = IF lk.w[p].kind = "start" /\ lk.stored = 0
                                    THEN "new" ELSE "in",
                        !.w[p].c = lk.stored,
                        !.w[p].todo = LockSections(lk.w[p].kind, lk.stored)]
    /\ UNCHANGED lockFrame

\* VoiceController::new and start up to the models check: with the models
\* directory missing start returns the error before it takes any lock;
\* otherwise the channel is created and audio_tx stored.
LkNew(p, models) ==
    /\ lk.w[p].pc = "new"
    /\ lk' = IF models
             THEN LET c == lk.built + 1 IN
                  [lk EXCEPT !.built = c,
                             !.c[c].audio_tx = TRUE,
                             !.w[p] = [@ EXCEPT !.pc = "in", !.c = c, !.made = TRUE,
                                                !.todo = StartSections]]
             ELSE [lk EXCEPT !.w[p] = [@ EXCEPT !.pc = "failed", !.c = 0,
                                                !.todo = << >>]]
    /\ UNCHANGED lockFrame

\* The command, holding the mutex, calls state.read() or state.write() for its
\* next section: it gets the lock, or blocks inside the call until it does.
LkAcquire(p) ==
    /\ lk.w[p].pc = "in"
    /\ lk.w[p].todo # << >>
    /\ LET c == lk.w[p].c IN
       \E l \in {IF Head(lk.w[p].todo) = "r" THEN LockShared(lk.c[c], p)
                                                ELSE LockExclusive(lk.c[c], p)} :
          /\ l # lk.c[c]
          /\ lk' = [lk EXCEPT !.c[c] = l,
                              !.w[p].pc = IF p \in l.readers \cup l.writer
                                          THEN "held" ELSE @]
    /\ UNCHANGED lockFrame

\* The section ends and its guard is dropped: start's write has set is_running
\* and is followed by thread::spawn; stop's write has cleared is_running and
\* is followed by audio_tx = None; a start_voice_listening that has read
\* is_running as false goes on to a new controller.
LkRelease(p) ==
    /\ lk.w[p].pc = "held"
    /\ LET c == lk.w[p].c
           kind == lk.w[p].kind
           mode == Head(lk.w[p].todo)
           spawns == kind = "start" /\ mode = "w"
           again == kind = "start" /\ ~lk.w[p].made /\ ~lk.c[c].running
       IN lk' = [lk EXCEPT !.c[c].readers = DropGuard(@, p),
                           !.c[c].writer = DropGuard(@, p),
                           !.c[c].running = IF spawns THEN TRUE
                                            ELSE IF kind = "stop" THEN FALSE ELSE @,
                           !.c[c].audio_tx = IF kind = "stop" THEN FALSE ELSE @,
                           !.c[c].t = IF spawns THEN "recv" ELSE @,
                           !.w[p].pc = IF again THEN "new" ELSE "in",
                           !.w[p].todo = Tail(@)]
    /\ UNCHANGED lockFrame

\* AudioCapture::with_device and audio_capture.start(audio_tx) inside
\* VoiceController::start, after its last section and with the mutex held:
\* they succeed, and the capture's chunks reach the thread, or one of them
\* fails and start returns the error.
LkStartCapture(p, ok) ==
    /\ lk.w[p].pc = "in"
    /\ lk.w[p].todo = << >>
    /\ lk.w[p].kind = "start"
    /\ lk.w[p].made
    /\ lk' = IF ok
             THEN [lk EXCEPT !.w[p].pc = "capturing",
                             !.c[lk.w[p].c].chunks = MaxLockChunks]
             ELSE [lk EXCEPT !.w[p].pc = "failed"]
    /\ UNCHANGED lockFrame

\* The command returns and the mutex guard is dropped. A start that has
\* succeeded has stored the controller and dropped its capture; one that has
\* failed has dropped the controller, its audio_tx and the sender in its
\* hand; stop has dropped the stored controller.
LkReturn(p) ==
    /\ \/ lk.w[p].pc = "in" /\ lk.w[p].todo = << >>
          /\ (lk.w[p].kind = "start" => ~lk.w[p].made)
       \/ lk.w[p].pc \in {"capturing", "failed"}
    /\ LET kind == lk.w[p].kind
           c == lk.w[p].c
           dropped == IF lk.w[p].pc = "failed" /\ lk.w[p].made THEN {c} ELSE {}
       IN
       lk' = [lk EXCEPT !.mutex = DropGuard(@, p),
                        !.w[p] = NoWorker,
                        !.c = [k \in 1..LockControllers |->
                                  IF k \in dropped THEN [@[k] EXCEPT !.audio_tx = FALSE]
                                  ELSE @[k]],
                        !.stored = IF lk.w[p].pc = "capturing" THEN c
                                   ELSE IF kind = "stop" THEN 0 ELSE @]
    /\ UNCHANGED lockFrame

\* A sender of controller c's channel is left: the controller's audio_tx, or
\* the sender that VoiceController::start holds and hands to the capture,
\* which lives until start returns.
LockSenders(c) ==
    \/ lk.c[c].audio_tx
    \/ \E p \in 1..LockWorkers : lk.w[p].made /\ lk.w[p].c = c

\* audio_rx.recv().await yields a chunk; no lock is held across the await.
LkRecv(c) ==
    /\ lk.c[c].t = "recv"
    /\ lk.c[c].chunks > 0
    /\ lk' = [lk EXCEPT !.c[c].t = "want_snapshot", !.c[c].chunks = @ - 1]
    /\ UNCHANGED lockFrame

\* audio_rx.recv().await yields None, the queue empty and every sender
\* dropped: the loop and the thread end.
LkRecvClosed(c) ==
    /\ lk.c[c].t = "recv"
    /\ lk.c[c].chunks = 0
    /\ ~LockSenders(c)
    /\ lk' = [lk EXCEPT !.c[c].t = "closed"]
    /\ UNCHANGED lockFrame

\* state.read() for the snapshot: the thread gets the lock, or blocks inside
\* the call until it does.
LkSnapshot(c) ==
    /\ lk.c[c].t = "want_snapshot"
    /\ \E l \in {LockShared(lk.c[c], LockThread)} :
          /\ l # lk.c[c]
          /\ lk' = [lk EXCEPT !.c[c] = IF LockThread \in l.readers
                                       THEN [l EXCEPT !.t = "snapshot"] ELSE l]
    /\ UNCHANGED lockFrame

\* The arms of the match as far as locks go: nothing more, the wake-word
\* transition, or add_audio.
SnapshotArms == {"recv", "want_wake", "want_add"}

\* The read guard is dropped: break when is_running is false, else the match.
LkAfterSnapshot(c, arm) ==
    /\ lk.c[c].t = "snapshot"
    /\ lk' = [lk EXCEPT !.c[c].readers = DropGuard(@, LockThread),
                        !.c[c].t = IF lk.c[c].running THEN arm ELSE "exited"]
    /\ UNCHANGED lockFrame

\* state.write() in the thread: for transition(WakeWordDetected), for
\* add_audio, for transition(VadSpeechEnd). Before the call the thread has
\* run the detector or the VAD without any lock.
LkThreadWrite(c) ==
    /\ lk.c[c].t \in ThreadWriteWaits
    /\ \E l \in {LockExclusive(lk.c[c], LockThread)} :
          /\ l # lk.c[c]
          /\ lk' = [lk EXCEPT !.c[c] =
                       IF LockThread \in l.writer
                       THEN [l EXCEPT !.t = IF l.t = "want_wake" THEN "wake"
                                            ELSE IF l.t = "want_add" THEN "add" ELSE "tr"]
                       ELSE l]
    /\ UNCHANGED lockFrame

\* The write guard is dropped; after add_audio the VAD either reports a speech
\* end, and the transition follows, or the iteration is over.
LkThreadRelease(c, speech_end) ==
    /\ lk.c[c].t \in {"wake", "add", "tr"}
    /\ lk' = [lk EXCEPT !.c[c].writer = DropGuard(@, LockThread),
                        !.c[c].t = IF @ = "add" /\ speech_end THEN "want_tr" ELSE "recv"]
    /\ UNCHANGED lockFrame

\* The steps of command invocation p once it has been invoked.
WorkerStep(p) ==
    \/ LkMutex(p)
    \/ \E models \in BOOLEAN : LkNew(p, models)
    \/ LkAcquire(p)
    \/ LkRelease(p)
    \/ \E ok \in BOOLEAN : LkStartCapture(p, ok)
    \/ LkReturn(p)

\* The steps of controller c's thread inside an iteration.
ThreadLockStep(c) ==
    \/ LkSnapshot(c)
    \/ \E arm \in SnapshotArms : LkAfterSnapshot(c, arm)
    \/ LkThreadWrite(c)
    \/ \E speech_end \in BOOLEAN : LkThreadRelease(c, speech_end)

LockNext ==
    \/ \E p \in 1..LockWorkers, kind \in LockCommands : LkInvoke(p, kind)
    \/ \E p \in 1..LockWorkers : LkMutex(p)
    \/ \E p \in 1..LockWorkers, models \in BOOLEAN : LkNew(p, models)
    \/ \E p \in 1..LockWorkers : LkAcquire(p)
    \/ \E p \in 1..LockWorkers : LkRelease(p)
    \/ \E p \in 1..LockWorkers, ok \in BOOLEAN : LkStartCapture(p, ok)
    \/ \E p \in 1..LockWorkers : LkReturn(p)
    \/ \E c \in 1..LockControllers : LkRecv(c)
    \/ \E c \in 1..LockControllers : LkRecvClosed(c)
    \/ \E c \in 1..LockControllers : ThreadLockStep(c)

SpecLocks == Init /\ [][LockNext]_vars

\* The runtime's workers and the spawned threads are scheduled, and the locks
\* of parking_lot hand over to a waiter.
FairSpecLocks ==
    /\ SpecLocks
    /\ \A p \in 1..LockWorkers : WF_vars(WorkerStep(p))
    /\ \A c \in 1..LockControllers : WF_vars(ThreadLockStep(c))

\* ------------------------------------------------ a session left running

\* One session is started and never stopped; the capture delivers
\* PipelineChunks chunks before start returns, and the host then injects
\* events and switches the wake word while the thread works through them.
PipelineNext ==
    \/ StartSpawn
    \/ StartCaptureOk
    \/ StartReturn
    \/ \E c \in CommandEvents : CmdTransition(c[1], c[2])
    \/ \E enabled \in BOOLEAN : SetWakeWordEnabled(enabled)
    \/ \E s \in Sessions, chunk \in CtlChunks : CallbackWithin(s, chunk, PipelineChunks)
    \/ \E s \in Sessions :
          \/ \E loaded \in BOOLEAN : ThInit(s, loaded)
          \/ ThRecvChunk(s)
          \/ \E outcome \in InferenceOutcomes : ThIdle(s, outcome)
          \/ ThWakeTransition(s)
          \/ ThEmitWake(s)
          \/ ThEmitStateWake(s)
          \/ ThListenAdd(s)
          \/ ThVadTransition(s)
          \/ ThEmitStateVad(s)
          \/ ThEmitAudio(s)

SpecPipeline == Init /\ [][PipelineNext]_vars

\* ------------------------------------------- starting, stopping, starting

\* The host starts and stops the voice system and picks input devices while
\* the device delivers no audio: the threads of the sessions it builds start,
\* wait in recv and return when their channel closes.
SessionsNext ==
    \/ StartAlreadyRunning
    \/ StartModelsMissing
    \/ StartSpawnAgain
    \/ \E why \in CaptureErrors("None") \cup CaptureErrors("usb-mic") :
          StartCaptureErr(why)
    \/ StartCaptureOk
    \/ StartReturn
    \/ StopVoiceListening
    \/ StopNotStarted
    \/ \E device_name \in InputDevices : SetInputDevice(device_name)
    \/ \E device_name \in InputDevices : SetInputDeviceNotStarted(device_name)
    \/ \E s \in Sessions, loaded \in BOOLEAN : ThInit(s, loaded)
    \/ \E s \in Sessions : ThRecvClosed(s)

SpecSessions == Init /\ [][SessionsNext]_vars

\* The session's processing thread has been spawned and has not returned.
ThreadAlive(s) == th[s].pc \notin {"none", "exited"}

\* ------------------------------------- the standalone VoiceActivityDetector

\* silence_frames_threshold of the detectors under test: 3 in vad.rs's tests,
\* 16 in VoiceConfig::default().
VadThresholds == {3, 16}

\* One-sample chunks, in thousandths: silence, quiet speech, and the loud chunk
\* of test_speech_end_detection (sin(i * 0.01) * 0.5 over 1280 samples, RMS 0.354).
VadChunks == {<<0>>, <<40>>, <<354>>}

AllZero(samples) == \A i \in 1..Len(samples) : samples[i] = 0

VadInit ==
    /\ FsmInitVars /\ CtlInitVars /\ CapInitVars /\ DetInitVars
    /\ \E t \in VadThresholds : svad = NewVad(VoiceConfigWith(76, t))
    /\ vadOp = NoVadOp
    /\ abuf = AudioBufferNew(MaxCapacity)
    /\ mbuf = MelBufferNew(MaxCapacity, MelBands)
    /\ bufOp = NoBufOp

\* vad.process(samples). History: zrun is the length of the run of all-zero
\* chunks fed since has_speech() was last seen true, ends the SpeechEnd results
\* within that run, heard whether a chunk was classified Speech since
\* construction or the last reset, loud the chunks since then that were not
\* all-zero (at most MaxLoudChunks are fed).
VadStep(samples) ==
    /\ vadOp.calls < MaxVadCalls
    /\ AllZero(samples) \/ vadOp.loud < MaxLoudChunks
    /\ LET r == VadProcess(svad, samples)
           inrun == AllZero(samples) /\ (vadOp.zrun > 0 \/ svad.speech_detected)
       IN /\ svad' = r.vad
          /\ vadOp' = [op |-> "process", result |-> r.result,
                       calls |-> vadOp.calls + 1,
                       zrun |-> IF inrun THEN vadOp.zrun + 1 ELSE 0,
                       ends |-> IF inrun
                                THEN vadOp.ends + (IF r.result = "SpeechEnd" THEN 1 ELSE 0)
                                ELSE 0,
                       heard |-> IF r.result = "Speech" THEN TRUE ELSE vadOp.heard,
                       loud |-> vadOp.loud + (IF AllZero(samples) THEN 0 ELSE 1)]
    /\ UNCHANGED <<fsmVars, ctlVars, capVars, detVars, abuf, mbuf, bufOp>>

\* vad.reset().
VadDoReset ==
    /\ vadOp.op # "reset"
    /\ svad' = VadReset(svad)
    /\ vadOp' = [vadOp EXCEPT !.op = "reset", !.result = "none", !.zrun = 0, !.loud = 0,
                              !.ends = 0, !.heard = FALSE]
    /\ UNCHANGED <<fsmVars, ctlVars, capVars, detVars, abuf, mbuf, bufOp>>

VadNext == (\E samples \in VadChunks : VadStep(samples)) \/ VadDoReset

SpecVad == VadInit /\ [][VadNext]_vars

\* VoiceActivityDetector::has_speech.
HasSpeech(vad) == vad.speech_detected

\* ----------------------------------- the standalone AudioBuffer, MelBuffer

\* Slices passed to push_samples.
BufChunks == {<<1>>, <<2, 3>>}

\* Outputs of the mel model for one chunk: no value, one value short of a
\* frame, a frame, two frames.
MelOutputs ==
    {[i \in 1..n |-> v + i] : n \in {0, MelBands - 1, MelBands, 2 * MelBands},
                              v \in {0, 100}}

BufInit ==
    /\ FsmInitVars /\ CtlInitVars /\ CapInitVars /\ DetInitVars
    /\ svad = NewVad(VoiceConfigWith(76, 16))
    /\ vadOp = NoVadOp
    /\ \E n \in 0..MaxCapacity : abuf = AudioBufferNew(n)
    /\ \E c \in 0..MaxCapacity : mbuf = MelBufferNew(c, MelBands)
    /\ bufOp = NoBufOp

\* abuf.push_samples(samples). History: pushed is everything pushed since
\* construction or the last clear.
BufPushSamples(samples) ==
    /\ Len(bufOp.pushed) + Len(samples) <= MaxPushed
    /\ abuf' = PushSamples(abuf, samples)
    /\ bufOp' = [bufOp EXCEPT !.op = "push_samples", !.pushed = @ \o samples]
    /\ UNCHANGED <<fsmVars, ctlVars, capVars, detVars, svad, vadOp, mbuf>>

\* mbuf.push_frame(transformed) as process_audio, the one caller, makes it: on
\* the mel model's output cut or padded to mel_bands and transformed, into
\* the buffer built with mel_bands. History: frames are the frames pushed
\* since construction or the last clear, lens the lengths of the outputs they
\* were made from.
BufPushFrame(data) ==
    /\ Len(bufOp.frames) < MaxFrames
    /\ \E transformed \in {MelTransform(MelFrame(data, MelBands))} :
          /\ mbuf' = PushFrame(mbuf, transformed)
          /\ bufOp' = [bufOp EXCEPT !.op = "push_frame",
                                    !.frames = Append(@, transformed),
                                    !.lens = Append(@, Len(data))]
    /\ UNCHANGED <<fsmVars, ctlVars, capVars, detVars, svad, vadOp, abuf>>

\* abuf.clear().
BufClear ==
    /\ abuf' = AudioClear(abuf)
    /\ bufOp' = [bufOp EXCEPT !.op = "clear_samples", !.pushed = << >>]
    /\ UNCHANGED <<fsmVars, ctlVars, capVars, detVars, svad, vadOp, mbuf>>

\* mbuf.clear().
BufMelClear ==
    /\ mbuf' = MelClear(mbuf)
    /\ bufOp' = [bufOp EXCEPT !.op = "clear", !.frames = << >>, !.lens = << >>]
    /\ UNCHANGED <<fsmVars, ctlVars, capVars, detVars, svad, vadOp, abuf>>

BufNext ==
    \/ \E samples \in BufChunks : BufPushSamples(samples)
    \/ \E data \in MelOutputs : BufPushFrame(data)
    \/ BufClear
    \/ BufMelClear

SpecBuf == BufInit /\ [][BufNext]_vars

\* The last n elements of a sequence (all of it when it is shorter).
LastN(q, n) == IF Len(q) <= n THEN q ELSE SubSeq(q, Len(q) - n + 1, Len(q))

\* ------------------------------------------- the standalone AudioCapture

\* Native sample rates and channel counts of the devices opened.
DeviceRates == {16000, 48000}
DeviceChannels == {1, 2}

\* Sizes of the buffers the device hands to the callback, in blocks of 128
\* samples: half a capture chunk (512 samples), one canonical chunk (1280), two
\* capture chunks (2048). Each is a whole number of frames of one or two
\* channels.
CbSizes == {4, 10, 16}

CapInit ==
    /\ FsmInitVars /\ CtlInitVars /\ UnitInitVars /\ DetInitVars
    /\ \E rate \in DeviceRates, channels \in DeviceChannels :
          acap = WithDevice(VoiceConfigWith(76, 16), rate, channels)
    /\ cb = "idle"
    /\ sink = << >>
    /\ capOp = NoCapOp

\* The AudioCapture has not been dropped and no call on it is in progress.
CapCallable == capOp.op # "drop" /\ ~acap.starting

\* start on a capture that is already capturing: Ok at once.
CapStartAlready ==
    /\ CapCallable
    /\ acap.is_capturing
    /\ capOp' = [capOp EXCEPT !.op = "start_again"]
    /\ UNCHANGED <<fsmVars, ctlVars, unitVars, detVars, acap, cb, sink>>

\* start fails building the resampler, querying the sample format, building
\* the stream or playing it: nothing is stored.
CapStartErr ==
    /\ CapCallable
    /\ ~acap.is_capturing
    /\ capOp' = [capOp EXCEPT !.op = "start_err"]
    /\ UNCHANGED <<fsmVars, ctlVars, unitVars, detVars, acap, cb, sink>>

\* start up to stream.play(): the resampler is built when the device rate is
\* not the target rate, a new empty accumulator is made, the new stream plays.
\* A callback of the stream dropped by an earlier stop that is still running
\* keeps the accumulator it was built with (at most one such callback is
\* followed).
CapStartPlay ==
    /\ CapCallable
    /\ ~acap.is_capturing
    /\ ~(cb = "drain" /\ acap.orphan.running)
    /\ acap' = [acap EXCEPT !.stream = TRUE, !.starting = TRUE,
                            !.resampler = (acap.sample_rate # acap.target_sample_rate),
                            !.buffer = << >>,
                            !.orphan = IF cb = "drain"
                                       THEN [running |-> TRUE, buffer |-> acap.buffer]
                                       ELSE @]
    /\ cb' = "idle"
    /\ capOp' = [capOp EXCEPT !.op = "play", !.stopped = FALSE]
    /\ UNCHANGED <<fsmVars, ctlVars, unitVars, detVars, sink>>

\* start after stream.play(): is_capturing is stored and start returns Ok.
CapStartFlag ==
    /\ acap.starting
    /\ acap' = [acap EXCEPT !.is_capturing = TRUE, !.starting = FALSE]
    /\ capOp' = [capOp EXCEPT !.op = "start"]
    /\ UNCHANGED <<fsmVars, ctlVars, unitVars, detVars, cb, sink>>

\* stop returns. A callback in flight is not waited for by anything in stop.
CapStop ==
    /\ CapCallable
    /\ acap' = CaptureStop(acap)
    /\ capOp' = [capOp EXCEPT !.op = "stop", !.stopped = TRUE]
    /\ UNCHANGED <<fsmVars, ctlVars, unitVars, detVars, cb, sink>>

\* Drop for AudioCapture: stop, and the capture is gone.
CapDrop ==
    /\ CapCallable
    /\ acap' = CaptureStop(acap)
    /\ capOp' = [capOp EXCEPT !.op = "drop", !.stopped = TRUE]
    /\ UNCHANGED <<fsmVars, ctlVars, unitVars, detVars, cb, sink>>

\* The playing stream invokes the callback with k raw samples: it returns at
\* once unless is_capturing is set; else the samples are converted, mixed to
\* mono and appended to the accumulator. History: the raw samples are numbered
\* 2, 4, 6, ... in the order the device produced them.
CbEnter(k) ==
    /\ acap.stream
    /\ cb = "idle"
    /\ capOp.fed + k <= MaxCapInput
    /\ LET data == [i \in 1..k |-> 2 * (capOp.fed + i)]
           samples == MixToMono(data, acap.channels)
       IN
       IF ~acap.is_capturing
       THEN /\ capOp' = [capOp EXCEPT !.fed = @ + k, !.skipped = @ + 1]
            /\ UNCHANGED <<acap, cb>>
       ELSE /\ acap' = [acap EXCEPT !.buffer = @ \o samples]
            /\ cb' = "drain"
            /\ capOp' = [capOp EXCEPT !.fed = @ + k, !.input = @ \o samples]
    /\ UNCHANGED <<fsmVars, ctlVars, unitVars, detVars, sink>>

\* One turn of the while loop of a running callback, the current stream's
\* (own) or the orphan: a chunk is drained, resampled when a resampler is
\* attached, and sent unless it is empty. History: after_stop counts the
\* chunks sent by a callback whose stream a stop has dropped.
CbDrain(own, outcome) ==
    /\ IF own THEN cb = "drain" ELSE acap.orphan.running
    /\ LET c == IF own THEN acap ELSE [acap EXCEPT !.buffer = acap.orphan.buffer] IN
       /\ Len(c.buffer) >= CaptureChunk
       /\ LET r == DrainOne(c, outcome) IN
          /\ acap' = IF own THEN r.cap
                     ELSE [acap EXCEPT !.orphan.buffer = r.cap.buffer]
          /\ sink' = IF r.sent # << >> THEN Append(sink, r.sent) ELSE sink
          /\ capOp' = IF r.sent # << >> /\ (capOp.stopped \/ ~own)
                      THEN [capOp EXCEPT !.after_stop = @ + 1] ELSE capOp
    /\ UNCHANGED <<fsmVars, ctlVars, unitVars, detVars, cb>>

\* The accumulator holds less than a chunk: the callback returns.
CbReturn(own) ==
    /\ IF own
       THEN /\ cb = "drain"
            /\ Len(acap.buffer) < CaptureChunk
            /\ cb' = "idle"
            /\ UNCHANGED acap
       ELSE /\ acap.orphan.running
            /\ Len(acap.orphan.buffer) < CaptureChunk
            /\ acap' = [acap EXCEPT !.orphan = NoOrphan]
            /\ UNCHANGED cb
    /\ UNCHANGED <<fsmVars, ctlVars, unitVars, detVars, sink, capOp>>

CapNext ==
    \/ CapStartAlready
    \/ CapStartErr
    \/ CapStartPlay
    \/ CapStartFlag
    \/ CapStop
    \/ CapDrop
    \/ \E k \in CbSizes : CbEnter(k)
    \/ \E own \in BOOLEAN, outcome \in ResampleOutcomes : CbDrain(own, outcome)
    \/ \E own \in BOOLEAN : CbReturn(own)

SpecCap == CapInit /\ [][CapNext]_vars

\* --------------------------------------- the standalone WakeWordDetector

\* Sensitivities passed to set_sensitivity, in tenths: below, inside and above
\* the range 0.1 to 3.0.
DetSensitivities == {0, 1, 10, 20, 30, 50}

\* Scores passed to is_detected, in thousandths: on and just above the
\* thresholds of the sensitivities above.
DetScores == {166, 167, 250, 251, 500, 501, 5000, 5001}

DetInit == FsmInitVars /\ CtlInitVars /\ UnitInitVars /\ CapInitVars /\ DetInitVars

\* detector.set_sensitivity(sensitivity).
DetSetSens(sensitivity) ==
    /\ sdet' = DetSetSensitivity(sdet, sensitivity)
    /\ detOp' = [NoDetOp EXCEPT !.op = "set_sensitivity", !.since = detOp.since,
                                !.failed = detOp.failed, !.frames = detOp.frames]
    /\ UNCHANGED <<fsmVars, ctlVars, unitVars, capVars>>

\* detector.is_detected(score).
DetIsDetected(score) ==
    /\ detOp' = [op |-> "is_detected", kind |-> "None", score |-> score,
                 detected |-> IsDetected(sdet, score),
                 since |-> detOp.since, failed |-> detOp.failed,
                 mel |-> "none", frames |-> detOp.frames]
    /\ UNCHANGED <<fsmVars, ctlVars, unitVars, capVars, sdet>>

\* detector.process_audio(samples). History: since is the number of
\* process_audio calls since construction or the last reset, failed whether
\* one of them returned Err, mel what the models did in this call, frames the
\* number of calls since construction or the last reset in which the mel
\* model did not fail.
DetProcessAudio(outcome) ==
    /\ detOp.since < MaxDetCalls
    /\ LET r == ProcessAudio(sdet, outcome) IN
       /\ sdet' = r.det
       /\ detOp' = [op |-> "process_audio", kind |-> r.kind, score |-> r.score,
                    detected |-> FALSE, since |-> detOp.since + 1,
                    failed |-> (detOp.failed \/ r.kind = "Err"),
                    mel |-> outcome.kind,
                    frames |-> detOp.frames + (IF outcome.kind = "mel_err" THEN 0 ELSE 1)]
    /\ UNCHANGED <<fsmVars, ctlVars, unitVars, capVars>>

\* detector.reset().
DetDoReset ==
    /\ sdet' = DetReset(sdet)
    /\ detOp' = [NoDetOp EXCEPT !.op = "reset"]
    /\ UNCHANGED <<fsmVars, ctlVars, unitVars, capVars>>

DetNext ==
    \/ \E sensitivity \in DetSensitivities : DetSetSens(sensitivity)
    \/ \E score \in DetScores : DetIsDetected(score)
    \/ \E outcome \in InferenceOutcomes : DetProcessAudio(outcome)
    \/ DetDoReset

SpecDet == DetInit /\ [][DetNext]_vars

\* ------------------------------------------------------------ the claims

\* The legal-transition table of the design: the rows that name a target state
\* and an action; Error(e) from any state is the last row.
LegalTable ==
    {<<"Idle", "WakeWordDetected", "Listening", "StartCapture">>,
     <<"Idle", "ManualTrigger", "Listening", "StartCapture">>,
     <<"Listening", "VadSpeechEnd", "Transcribing", "SendToStt">>,
     <<"Listening", "Timeout", "Idle", "StopCapture">>,
     <<"Listening", "Cancel", "Idle", "StopCapture">>,
     <<"Transcribing", "TranscriptionComplete", "Processing", "ProcessText">>,
     <<"Processing", "ResponseReady", "Speaking", "PlayTts">>,
     <<"Speaking", "SpeechComplete", "Idle", "None">>,
     <<"Speaking", "BargeIn", "Listening", "StopTts">>,
     <<"Speaking", "Cancel", "Idle", "StopTts">>}

\* What the table gives for event in a machine pre: target state and action.
TableResult(pre, event) ==
    LET rows == {r \in LegalTable : r[1] = pre.state /\ r[2] = event.type} IN
    IF event.type = "Error"
    THEN [new_state |-> "Idle", action |-> Act("EmitError", event.text, << >>)]
    ELSE IF rows = {}
    THEN [new_state |-> pre.state, action |-> NoAction]
    ELSE LET r == CHOOSE r \in rows : TRUE IN
         [new_state |-> r[3],
          action |-> Act(r[4],
                         IF r[4] \in {"ProcessText", "PlayTts"} THEN event.text ELSE "",
                         IF r[4] = "SendToStt" THEN pre.captured_audio ELSE << >>)]

\* C1: transition(e) in state s returns exactly the target state and the action
\* of the legal-transition table (Error(e) from any state goes to Idle with
\* EmitError(e)); a pair the table does not list leaves the state unchanged and
\* returns no action.
C1_TransitionFollowsTable ==
    lastOp.op = "transition" =>
        /\ lastOp.result = TableResult(lastOp.pre, lastOp.event)
        /\ sm.state = lastOp.result.new_state

C1_Witness ==
    /\ lastOp.op = "transition"
    /\ lastOp.pre.state = "Processing"
    /\ lastOp.event = Ev("ResponseReady", "hi")
    /\ sm.state = "Speaking"

\* C2: after any sequence of transition, add_audio and reset calls on a fresh
\* machine the captured-audio buffer is empty in every state but Listening.
C2_AudioOnlyInListening ==
    sm.state # "Listening" => sm.captured_audio = << >>

C2_Witness ==
    /\ lastOp.op = "transition"
    /\ lastOp.pre.state = "Listening"
    /\ lastOp.pre.captured_audio # << >>
    /\ sm.state = "Transcribing"

\* C3: VadSpeechEnd in Listening returns SendToStt carrying, in order, every
\* sample passed to add_audio since the machine last entered Listening, and
\* leaves the machine's own buffer empty.
C3_SpeechEndMovesAudio ==
    (/\ lastOp.op = "transition"
     /\ lastOp.pre.state = "Listening"
     /\ lastOp.event.type = "VadSpeechEnd")
    => /\ lastOp.result.action = Act("SendToStt", "", lastOp.episode)
       /\ sm.captured_audio = << >>

C3_Witness ==
    /\ lastOp.op = "transition"
    /\ lastOp.pre.state = "Listening"
    /\ lastOp.event.type = "VadSpeechEnd"
    /\ lastOp.result.action.audio = <<1, 2, 3>>

\* C4: a call sequence on a fresh machine that ends in Error(e) ends in Idle,
\* with EmitError(e) returned and the captured-audio buffer empty.
C4_ErrorResetsToIdle ==
    (lastOp.op = "transition" /\ lastOp.event.type = "Error")
    => /\ sm.state = "Idle"
       /\ lastOp.result.new_state = "Idle"
       /\ lastOp.result.action = Act("EmitError", lastOp.event.text, << >>)
       /\ sm.captured_audio = << >>

C4_Witness ==
    /\ lastOp.op = "transition"
    /\ lastOp.event = Ev("Error", "stt down")
    /\ lastOp.pre.state = "Listening"
    /\ lastOp.pre.captured_audio # << >>
    /\ sm.state = "Idle"

\* C5 as stated: after transition(Cancel) in any state the machine is in Idle
\* with the captured-audio buffer empty.
C5_CancelAlwaysIdle ==
    (lastOp.op = "transition" /\ lastOp.event.type = "Cancel")
    => /\ sm.state = "Idle"
       /\ sm.captured_audio = << >>

\* C5 amended: after transition(Cancel) the captured-audio buffer is empty; the
\* machine is in Idle when it was in Idle, Listening or Speaking, and Cancel is a
\* no-op (state kept, no action) in Transcribing and Processing.
C5_CancelIdleOrNoOp ==
    (lastOp.op = "transition" /\ lastOp.event.type = "Cancel")
    => /\ sm.captured_audio = << >>
       /\ lastOp.pre.state \in {"Idle", "Listening", "Speaking"} => sm.state = "Idle"
       /\ lastOp.pre.state \in {"Transcribing", "Processing"} =>
              /\ sm.state = lastOp.pre.state
              /\ lastOp.result.action = NoAction

C5_Witness ==
    /\ lastOp.op = "transition"
    /\ lastOp.event.type = "Cancel"
    /\ lastOp.pre.state = "Listening"
    /\ lastOp.pre.captured_audio # << >>
    /\ sm.state = "Idle"

\* The events one step put on the frontend bus under a given name.
Emitted(name) == {i \in 1..Len(out.events) : out.events[i].name = name}

\* C6: under every interleaving of host commands with the processing thread,
\* the payload of each emitted voice-audio-captured event is the in-order
\* concatenation of exactly the chunks the thread received while the machine
\* was in the Listening episode that VadSpeechEnd ended.
C6_PayloadIsEpisode ==
    \A i \in Emitted("voice-audio-captured") : out.events[i].audio = out.received

\* C7: from the Ok return of start until stop, the capture of the stored,
\* running controller has is_capturing set and its stream alive.
C7_CaptureStaysLive ==
    \A s \in Sessions :
        (guard = s /\ ctl[s].is_running) => (cap[s].is_capturing /\ cap[s].stream)

\* C8: when start fails (models directory missing, input device not opened,
\* capture not started) no processing thread has been spawned for the
\* controller and its is_running is false.
C8_FailedStartSpawnsNothing ==
    (out.by = "command" /\ out.name = "start_voice_listening" /\ out.ret # "Ok")
    => \/ out.session = 0
       \/ (th[out.session].pc = "none" /\ ~ctl[out.session].is_running)

\* stop was called on the started controller of session s.
Stopped(s) == nsessions >= s /\ ~ctl[s].is_running

\* C9: once stop has been called on a started controller its processing
\* thread eventually leaves the receive loop and exits, from wherever it was:
\* waiting on the empty channel, with chunks queued, or inside an iteration.
C9_StopLeadsToExit ==
    \A s \in Sessions : Stopped(s) ~> (th[s].pc = "exited")

C9_Witness ==
    /\ Stopped(1)
    /\ th[1].pc = "exited"
    /\ th[1].exit_by = "is_running"
    /\ chan[1] # << >>

\* A step of manual_trigger, cancel, transcription_complete, response_ready or
\* speech_complete on the stored controller.
IsEventCommand ==
    /\ out.by = "command"
    /\ out.session # 0
    /\ out.name \in {c[1] : c \in CommandEvents}

\* C10 as stated: each of the five commands emits one voice-state-changed event
\* when its transition changed the state and emits nothing when it was a no-op.
C10_EmitsIffChanged ==
    IsEventCommand =>
        LET post == ctl[out.session].state_machine.state IN
        out.events = IF post # out.pre
                     THEN << Event("voice-state-changed", post, << >>) >>
                     ELSE << >>

\* C10 amended: each of the five commands emits exactly one voice-state-changed
\* event carrying the state after its transition, changed or not.
C10_EmitsAlways ==
    IsEventCommand =>
        out.events = << Event("voice-state-changed",
                              ctl[out.session].state_machine.state, << >>) >>

C10_Witness ==
    /\ IsEventCommand
    /\ out.name = "cancel_voice_operation"
    /\ out.pre = "Transcribing"
    /\ out.events = << Event("voice-state-changed", "Transcribing", << >>) >>

\* C11: after set_wake_word_sensitivity(s) has returned on a running
\* controller, every wake-word decision of the processing thread compares the
\* score with wake_word_threshold / clamp(s, 0.1, 3.0), the effective threshold
\* of the controller's current config.
C11_DecisionUsesCurrentSensitivity ==
    (out.name = "wake_decision" /\ ctl[out.session].is_running)
    => out.detected = (out.score > EffectiveThreshold(ctl[out.session].config))

\* C12: right after the processing thread has handled a positive wake-word
\* detection or a VAD speech end, the detector's mel buffer is empty.
C12_MelClearedAfterHandling ==
    out.name \in {"wake_handled", "speech_end_handled"}
    => th[out.session].det.mel_len = 0

\* C16: whenever the machine has entered Listening and the thread has not yet
\* received a chunk of the episode, the VAD is in its reset state.
C16_VadFreshPerEpisode ==
    \A s \in Sessions :
        (/\ ctl[s].state_machine.state = "Listening"
         /\ epRecv[s] = << >>
         /\ th[s].pc = "recv")
        => th[s].vad = VadReset(th[s].vad)

\* The session of controller s is running: start has returned Ok (the
\* controller holds its sender, is_running is set) and stop has not been called.
SessionRunning(s) ==
    /\ s <= nsessions
    /\ ctl[s].is_running
    /\ audio_tx[s]
    /\ host.session # s

NoSessionRunning == host.pc = "idle" /\ \A s \in Sessions : ~SessionRunning(s)

\* C20: while no session is running (never started, start failed, or stopped)
\* get_voice_state gives Idle and is_voice_running gives false, and a step of
\* trigger_voice_listening, cancel_voice_operation, set_wake_word_sensitivity,
\* set_wake_word_enabled, voice_transcription_complete, voice_response_ready or
\* voice_speech_complete returns the error text, emits nothing and changes no
\* state.
C20_NotRunningCommandsFail ==
    [][NoSessionRunning =>
         /\ GetVoiceState = "Idle"
         /\ ~IsVoiceRunning
         /\ (out'.by = "command" /\ out'.name \in CommandNames) =>
               /\ out'.ret = "Voice system not started"
               /\ out'.events = << >>
               /\ UNCHANGED <<guard, host, nsessions, ctl, audio_tx, chan, cap,
                              produced, th, epRecv>>]_vars

C20_Witness ==
    /\ out.by = "command"
    /\ out.name = "set_wake_word_sensitivity"
    /\ out.ret = "Voice system not started"
    /\ nsessions = 1
    /\ ~ctl[1].is_running
    /\ ctl[1].state_machine.state = "Listening"

\* C13: process returns SpeechEnd only when has_speech() is true, and only after
\* a chunk since construction or the last reset was classified as Speech.
C13_SpeechEndOnlyAfterSpeech ==
    (vadOp.op = "process" /\ vadOp.result = "SpeechEnd")
    => (HasSpeech(svad) /\ vadOp.heard)

\* A SpeechEnd was returned, after a reset wiped an earlier episode.
C13_Witness ==
    /\ vadOp.op = "process" /\ vadOp.result = "SpeechEnd"
    /\ vadOp.calls > vadOp.zrun + 1

\* C14: with silence_frames_threshold 16, a run of 16 all-zero chunks after
\* prior speech has produced exactly one SpeechEnd.
C14_SixteenZerosOneSpeechEnd ==
    (svad.silence_frames_threshold = 16 /\ vadOp.zrun = 16) => vadOp.ends = 1

\* C15: the last of silence_frames_threshold consecutive all-zero chunks fed
\* after has_speech() became true returns SpeechEnd.
C15_SpeechEndOnLastSilentChunk ==
    (vadOp.op = "process" /\ vadOp.zrun = svad.silence_frames_threshold)
    => vadOp.result = "SpeechEnd"

\* C17: after any sequence of push_samples calls on an AudioBuffer of capacity
\* N >= 0, len() <= N and get_all() is the last min(N, total) samples pushed,
\* in order.
C17_RingKeepsLastN ==
    /\ Len(GetAll(abuf)) <= abuf.capacity
    /\ GetAll(abuf) = LastN(bufOp.pushed, abuf.capacity)

\* Every frame pushed since construction or the last clear has the width the
\* buffer was declared with.
DeclaredWidthOnly ==
    \A i \in 1..Len(bufOp.frames) : Len(bufOp.frames[i]) = mbuf.frame_size

\* C18: for a MelBuffer of capacity c and width w fed with frames of width w,
\* after c or more pushes is_ready() is true and get_flattened() is the last c
\* pushed frames concatenated oldest first, c * w elements; before c pushes
\* is_ready() is false.
C18_ReadyWithLastCFrames ==
    DeclaredWidthOnly =>
        IF Len(bufOp.frames) >= mbuf.capacity
        THEN /\ IsReady(mbuf)
             /\ Len(GetFlattened(mbuf)) = mbuf.capacity * mbuf.frame_size
             /\ GetFlattened(mbuf) = Flatten(LastN(bufOp.frames, mbuf.capacity))
        ELSE ~IsReady(mbuf)

\* C19: every frame stored in the MelBuffer has the width declared at
\* construction, 32 in the wake-word engine, after any sequence of the
\* push_frame and clear calls the engine makes, whatever the length of the
\* mel model's outputs.
C19_StoredFramesHaveDeclaredWidth ==
    /\ mbuf.frame_size = 32
    /\ \A i \in 1..Len(mbuf.frames) : Len(mbuf.frames[i]) = mbuf.frame_size

\* A full buffer whose frames were made from a short and from a long output
\* of the mel model.
C19_Witness ==
    /\ bufOp.op = "push_frame"
    /\ mbuf.capacity = MaxCapacity
    /\ Len(mbuf.frames) = mbuf.capacity
    /\ LastN(bufOp.lens, 2) = <<MelBands - 1, 2 * MelBands>>
    /\ Len(bufOp.lens) = MaxFrames

\* C21: between start and stop commands at most one session's processing
\* thread is alive.
C21_AtMostOneThreadAlive ==
    host.pc = "idle" => Cardinality({s \in Sessions : ThreadAlive(s)}) <= 1

\* C22: a successful start opens the capture on the device last chosen with
\* set_input_device, whether it was chosen while running or while stopped.
C22_StartOpensChosenDevice ==
    (host.pc = "capturing" /\ chosen # "unset")
    => cap[host.session].device = chosen

\* C23: every chunk the capture has sent to the sink has the canonical chunk
\* size of VoiceConfig.chunk_size samples.
C23_ChunksAreCanonical ==
    \A i \in 1..Len(sink) : Len(sink[i]) = CanonicalChunk

\* C24: on the path without resampler and with one channel, once the callbacks
\* have returned, the chunks sent concatenate to the samples fed, in order.
C24_InEqualsOut ==
    (/\ acap.sample_rate = acap.target_sample_rate
     /\ acap.channels = 1
     /\ cb = "idle" /\ ~acap.orphan.running)
    => Flatten(sink) = capOp.input

\* C30: no chunk is sent to the channel after stop (or the drop of the capture)
\* has returned.
C30_NoSendAfterStop == capOp.after_stop = 0

\* The config with another sensitivity (in tenths).
WithSensitivity(config, sensitivity) == [config EXCEPT !.sensitivity = sensitivity]

\* C29: effective_threshold is wake_word_threshold / sensitivity (here its
\* integer part in thousandths) and strictly decreasing in sensitivity over
\* 0.1 to 3.0; for base 0.5 and sensitivity 0.1, 1.0, 2.0, 3.0 it is 5.0, 0.5,
\* 0.25, 0.1667; is_detected(score) holds exactly when score is strictly
\* greater than the threshold.
C29_ThresholdAndDetection ==
    LET config == sdet.config
        t == EffectiveThreshold(config)
    IN
    /\ t * config.sensitivity <= config.wake_word_threshold * 10
    /\ config.wake_word_threshold * 10 < (t + 1) * config.sensitivity
    /\ \A a, b \in 1..30 :
          a < b => EffectiveThreshold(WithSensitivity(config, a))
                       > EffectiveThreshold(WithSensitivity(config, b))
    /\ config.wake_word_threshold = 500 =>
          /\ EffectiveThreshold(WithSensitivity(config, 1)) = 5000
          /\ EffectiveThreshold(WithSensitivity(config, 10)) = 500
          /\ EffectiveThreshold(WithSensitivity(config, 20)) = 250
          /\ EffectiveThreshold(WithSensitivity(config, 30)) = 166
    /\ detOp.op = "is_detected" => (detOp.detected <=> detOp.score > t)

\* At sensitivity 3.0 a score of 0.167 is a detection.
C29_Witness ==
    /\ detOp.op = "is_detected"
    /\ sdet.config.sensitivity = 30
    /\ detOp.score = 167
    /\ detOp.detected

\* C26: add_audio(chunk) appends chunk to the end of the captured-audio buffer
\* in Listening and leaves state and last_transition alone; in every other
\* state it changes nothing; transition and reset never append: they leave the
\* buffer as it was or empty.
C26_OnlyAddAudioAppends ==
    /\ lastOp.op = "add_audio" =>
          IF lastOp.pre.state = "Listening"
          THEN sm = [lastOp.pre EXCEPT !.captured_audio = @ \o lastOp.samples]
          ELSE sm = lastOp.pre
    /\ lastOp.op \in {"transition", "reset"} =>
          sm.captured_audio \in {lastOp.pre.captured_audio, << >>}

C26_Witness ==
    /\ lastOp.op = "add_audio"
    /\ lastOp.pre.state = "Listening"
    /\ lastOp.pre.captured_audio # << >>
    /\ lastOp.samples # << >>
    /\ Len(sm.captured_audio) = MaxAudio

\* The design's table has no row for the event in the machine's state, and
\* the event is not Error.
NoOpPair(pre, event) ==
    /\ event.type # "Error"
    /\ {r \in LegalTable : r[1] = pre.state /\ r[2] = event.type} = {}

\* C27: a transition that is a no-op leaves the whole machine unchanged and
\* returns no action; so does a second WakeWordDetected or a ManualTrigger
\* while already Listening, which keeps the audio captured so far.
C27_NoOpChangesNothing ==
    (lastOp.op = "transition" /\ NoOpPair(lastOp.pre, lastOp.event))
    => /\ sm = lastOp.pre
       /\ lastOp.result = [new_state |-> lastOp.pre.state, action |-> NoAction]

C27_Witness ==
    /\ lastOp.op = "transition"
    /\ lastOp.pre.state = "Listening"
    /\ lastOp.event.type = "WakeWordDetected"
    /\ lastOp.pre.captured_audio # << >>
    /\ clock > lastOp.pre.last_transition
    /\ sm = lastOp.pre

\* C28: an operation that leaves the state value equal to what it was leaves
\* last_transition unchanged.
C28_StampOnlyOnChange ==
    (lastOp.op \in {"transition", "add_audio", "reset"} /\ sm.state = lastOp.pre.state)
    => sm.last_transition = lastOp.pre.last_transition

\* The thread of session s runs without a wake-word detector.
Degraded(t) == t.pc \notin {"none", "init"} /\ ~t.det.present

\* The points of an iteration that only a wake-word detection reaches.
WakePcs == {"idle", "wake_tr", "emit_wake", "emit_state_w"}

\* The events of a step's output that carry the given name.
Named(o, name) == {i \in 1..Len(o.events) : o.events[i].name = name}

\* C25: when WakeWordDetector::new fails in the processing thread, that step
\* emits one voice-error event (between the debug-log events of the thread's
\* start), leaves the controller (is_running included) as it was and enters
\* the loop; from then on the thread never gets a detector, never reaches the
\* wake-word arm or emits voice-wake-word, and leaves the loop only on
\* is_running = false or a closed channel.
C25_DegradedModeKeepsRunning ==
    [][\A s \in Sessions :
          /\ (th[s].pc = "init" /\ th'[s].pc # "init" /\ ~th'[s].det.present)
             => /\ out'.by = "thread" /\ out'.session = s
                /\ Cardinality(Named(out', "voice-error")) = 1
                /\ \A i \in 1..Len(out'.events) :
                      out'.events[i].name \in {"voice-error", "debug-log"}
                /\ ctl' = ctl
                /\ th'[s].pc = "recv"
          /\ Degraded(th[s])
             => /\ ~th'[s].det.present
                /\ th'[s].pc \notin WakePcs
                /\ (out'.by = "thread" /\ out'.session = s)
                   => \A i \in 1..Len(out'.events) :
                          out'.events[i].name # "voice-wake-word"
                /\ (th[s].pc # "exited" /\ th'[s].pc = "exited")
                   => \/ ~ctl[s].is_running
                      \/ chan[s] = << >> /\ ~SendersAlive(s)
      ]_vars

\* A session without a detector, still running, has gone Idle -> Listening
\* by a manual trigger and, after speech and silence, to Transcribing, and
\* emits the captured audio.
C25_Witness ==
    /\ out.by = "thread"
    /\ out.session \in Sessions
    /\ Degraded(th[out.session])
    /\ ctl[out.session].is_running
    /\ ctl[out.session].state_machine.state = "Transcribing"
    /\ \E i \in 1..Len(out.events) :
          /\ out.events[i].name = "voice-audio-captured"
          /\ out.events[i].audio # << >>

\* C31: a process call whose smoothed level is not silent sets speech_detected,
\* zeroes silent_frame_count and returns Speech; a silent level with
\* speech_detected increments silent_frame_count, keeps speech_detected and
\* returns SpeechEnd iff the count has reached silence_frames_threshold, else
\* Silence; a silent level without speech_detected returns Silence and changes
\* neither; and after a SpeechEnd, with no reset in between, a further all-zero
\* chunk returns SpeechEnd again.
C31_ThreeBranchesNoAutoReset ==
    [][vadOp'.op = "process" =>
         LET is_silent == Below(svad'.smoothed_rms, svad.silence_threshold) IN
         /\ ~is_silent
            => /\ svad'.speech_detected
               /\ svad'.silent_frame_count = 0
               /\ vadOp'.result = "Speech"
         /\ (is_silent /\ svad.speech_detected)
            => /\ svad'.speech_detected
               /\ svad'.silent_frame_count = svad.silent_frame_count + 1
               /\ vadOp'.result =
                     IF svad'.silent_frame_count >= svad.silence_frames_threshold
                     THEN "SpeechEnd" ELSE "Silence"
         /\ (is_silent /\ ~svad.speech_detected)
            => /\ ~svad'.speech_detected
               /\ svad'.silent_frame_count = svad.silent_frame_count
               /\ vadOp'.result = "Silence"
         /\ (vadOp.op = "process" /\ vadOp.result = "SpeechEnd" /\ vadOp'.zrun > 0)
            => vadOp'.result = "SpeechEnd"
      ]_vars

\* A second SpeechEnd in a row: the count has passed the threshold.
C31_Witness ==
    /\ vadOp.op = "process" /\ vadOp.result = "SpeechEnd"
    /\ vadOp.ends >= 2
    /\ svad.silent_frame_count > svad.silence_frames_threshold

\* The thread of session s takes a chunk from the channel in this step.
RecvStep(s) == th[s].pc = "recv" /\ chan[s] # << >> /\ chan'[s] = Tail(chan[s])

\* The snapshot the thread reads sends the chunk to neither arm of the match.
SnapshotDrops(s) ==
    LET c == ctl[s] IN
    /\ c.is_running
    /\ \/ c.state_machine.state \in {"Transcribing", "Processing", "Speaking"}
       \/ c.state_machine.state = "Idle" /\ (~c.wake_word_enabled \/ ~th[s].det.present)

\* C32: a chunk received under a snapshot of Transcribing, Processing or
\* Speaking, or of Idle with the wake word disabled or the engine absent, is
\* dropped: it is counted, pushed into the thread's sample ring and its level
\* emitted, as for every chunk, and the iteration ends there. The controller
\* state (FSM and captured audio included), the thread's VAD and its wake-word
\* engine are unchanged, and nothing else is emitted than the level and the
\* debug-log event of the first chunk.
C32_OtherStatesDropChunk ==
    [][\A s \in Sessions :
          (RecvStep(s) /\ SnapshotDrops(s))
          => /\ ctl' = ctl
             /\ th'[s] = [th[s] EXCEPT
                             !.chunk_count = @ + 1,
                             !.audio_buffer = PushSamples(@, Head(chan[s]))]
             /\ th'[s].vad = th[s].vad /\ th'[s].det = th[s].det
             /\ th'[s].pc = "recv"
             /\ out'.by = "thread" /\ out'.session = s
             /\ Cardinality(Named(out', "voice-audio-level")) = 1
             /\ \A i \in 1..Len(out'.events) :
                   out'.events[i].name \in {"voice-audio-level", "debug-log"}
      ]_vars

\* The third chunk of the session arrived after the speech end and was dropped.
C32_Witness ==
    /\ out.name = "dropped"
    /\ out.pre = "Transcribing"
    /\ ctl[out.session].state_machine.state = "Transcribing"
    /\ th[out.session].pc = "recv"

\* C33: when process_audio fails on a chunk in Idle, the step emits one
\* debug-log event and nothing else (no voice-wake-word, no
\* voice-state-changed), the controller state (FSM included) is unchanged,
\* and the thread is back at recv for the next chunk.
C33_InferenceErrorDropsChunk ==
    [][\A s \in Sessions :
          (th[s].pc = "idle" /\ out'.name = "inference_error" /\ out'.session = s)
          => /\ ctl' = ctl
             /\ out'.events = << DebugLog("error", "Wake word error", 0) >>
             /\ th'[s].pc = "recv"
             /\ th'[s].vad = th[s].vad
      ]_vars

\* An inference error on one chunk, the next chunk waiting in the channel.
C33_Witness ==
    /\ out.name = "inference_error"
    /\ th[out.session].pc = "recv"
    /\ ctl[out.session].is_running
    /\ ctl[out.session].state_machine.state = "Idle"
    /\ chan[out.session] # << >>

\* C34 as stated: after the mel buffer has been cleared, each of the next
\* mel_frame_count - 1 process_audio calls returns no score and every call from
\* the mel_frame_count-th on returns a score.
C34_ScoreFromWindowOn ==
    detOp.op = "process_audio"
    => (detOp.kind = "Some" <=> detOp.since >= sdet.config.mel_frame_count)

\* C34, amended: after the mel buffer has been cleared, none of the next
\* mel_frame_count - 1 (75) process_audio calls returns a score, so the Idle
\* arm issues no WakeWordDetected on them. A call whose mel computation fails
\* returns Err and pushes no frame; every other call pushes one frame and
\* returns Ok(None) while fewer than mel_frame_count frames have been pushed
\* since the clear, and from the mel_frame_count-th pushed frame on a score,
\* or Err when the embedding or classifier inference fails.
C34_NoScoreBeforeWindowFull ==
    [][detOp'.op = "process_audio" =>
         LET window == sdet.config.mel_frame_count IN
         /\ window = 76
         /\ detOp'.since = detOp.since + 1
         /\ detOp'.since < window
            => /\ detOp'.kind # "Some"
               /\ \A outcome \in InferenceOutcomes :
                     IdleArm([NoThread EXCEPT !.pc = "idle", !.det = sdet],
                             outcome).pc = "recv"
         /\ detOp'.mel = "mel_err"
            => /\ detOp'.kind = "Err"
               /\ sdet' = sdet
               /\ detOp'.frames = detOp.frames
         /\ detOp'.mel # "mel_err"
            => /\ detOp'.frames = detOp.frames + 1
               /\ sdet'.mel_len = (IF detOp'.frames < window THEN detOp'.frames
                                                              ELSE window)
               /\ detOp'.kind = IF detOp'.frames < window THEN "None"
                                ELSE IF detOp'.mel = "infer_err" THEN "Err"
                                ELSE "Some"
      ]_vars

\* One chunk failed in the mel model after the clear: the 76th call found
\* 75 frames and returned no score, the 77th returns the first.
C34_Witness ==
    /\ detOp.op = "process_audio"
    /\ detOp.since = MaxDetCalls
    /\ detOp.frames = sdet.config.mel_frame_count
    /\ detOp.failed
    /\ detOp.kind = "Some"
    /\ sdet.mel_len = sdet.config.mel_frame_count

\* Neither a command nor a chunk of session s is in the middle of being handled.
Quiescent(s) == host.pc = "idle" /\ th[s].pc \in {"recv", "exited"}

\* C35: whenever no command and no chunk is in the middle of being handled,
\* the payload of the most recently emitted voice-state-changed event equals
\* the FSM's current state; checked at the step that emits the event.
C35_LastStateEventIsCurrent ==
    \A i \in Emitted("voice-state-changed") :
        (i = Len(out.events) /\ out.session \in Sessions /\ Quiescent(out.session))
        => out.events[i].state = ctl[out.session].state_machine.state

\* C36: after stop_voice_listening has returned, the stopped session emits no
\* further voice-wake-word, voice-state-changed or voice-audio-captured event.
C36_NoEventsAfterStop ==
    (out.by = "thread" /\ out.session \in Sessions /\ ~ctl[out.session].is_running)
    => \A i \in 1..Len(out.events) :
          out.events[i].name \notin {"voice-wake-word", "voice-state-changed",
                                     "voice-audio-captured"}

\* C37: while wake_word_enabled is false (set_wake_word_enabled(false) has
\* returned and the wake word has not been enabled again) the processing
\* thread applies no WakeWordDetected transition and emits no voice-wake-word
\* event.
C37_NoWakeWhileDisabled ==
    [][\A s \in Sessions :
          ~ctl[s].wake_word_enabled
          => /\ ~(th[s].pc = "wake_tr" /\ th'[s].pc = "emit_wake")
             /\ ~(th[s].pc = "emit_wake" /\ th'[s].pc = "emit_state_w")
      ]_vars

\* The thread of session s emits voice-audio-captured in this step.
EmitsAudio(s) ==
    /\ out'.by = "thread" /\ out'.session = s
    /\ \E i \in 1..Len(out'.events) : out'.events[i].name = "voice-audio-captured"

\* C38: voice-audio-captured is emitted exactly once for each Listening ->
\* Transcribing transition and never otherwise: the thread's VadSpeechEnd
\* yields the audio to send iff it moved the machine from Listening to
\* Transcribing, the event is emitted iff it did, and the payload ends with
\* the chunk that triggered the speech end.
C38_OneCaptureEventPerSpeechEnd ==
    [][\A s \in Sessions :
          /\ (th[s].pc = "vad_tr" /\ th'[s].pc = "emit_state_v")
             => (th'[s].action.type = "SendToStt"
                 <=> (ctl[s].state_machine.state = "Listening"
                      /\ ctl'[s].state_machine.state = "Transcribing"))
          /\ (th[s].pc = "emit_state_v" /\ th'[s].pc # "emit_state_v")
             => (th'[s].pc = "emit_audio" <=> th[s].action.type = "SendToStt")
          /\ EmitsAudio(s) <=> (th[s].pc = "emit_audio" /\ th'[s].pc = "recv")
          /\ EmitsAudio(s)
             => \A i \in 1..Len(out'.events) :
                   LET audio == out'.events[i].audio IN
                   /\ Len(audio) >= Len(th[s].samples)
                   /\ LastN(audio, Len(th[s].samples)) = th[s].samples
      ]_vars

\* The last n entries of the trail are the given action types, the first of
\* them one of the ways into Listening.
TrailEndsWith(trail, types) ==
    LET n == Len(types) IN
    /\ Len(trail) >= n + 1
    /\ \A i \in 1..n : trail[Len(trail) - n + i] = types[i]
    /\ trail[Len(trail) - n] \in {"StartCapture", "StopTts"}

\* C39: on a fresh FSM, under every sequence of calls, a PlayTts is preceded
\* by a ProcessText, that by a SendToStt, that by a StartCapture or a barge-in
\* StopTts, with no visit to Idle in between; and Transcribing is entered only
\* from Listening, Processing only from Transcribing, Speaking only from
\* Processing.
C39_InteractionIsOrdered ==
    /\ (lastOp.op = "transition" /\ lastOp.result.action.type = "PlayTts")
       => TrailEndsWith(lastOp.trail, <<"SendToStt", "ProcessText", "PlayTts">>)
    /\ (lastOp.op = "transition" /\ lastOp.result.action.type = "ProcessText")
       => TrailEndsWith(lastOp.trail, <<"SendToStt", "ProcessText">>)
    /\ (lastOp.op = "transition" /\ lastOp.result.action.type = "SendToStt")
       => TrailEndsWith(lastOp.trail, <<"SendToStt">>)
    /\ sm.state # lastOp.pre.state
       => /\ sm.state = "Transcribing" => lastOp.pre.state = "Listening"
          /\ sm.state = "Processing" => lastOp.pre.state = "Transcribing"
          /\ sm.state = "Speaking" => lastOp.pre.state = "Processing"

\* The reply of an interaction that a barge-in started.
C39_Witness ==
    /\ lastOp.op = "transition"
    /\ lastOp.result.action.type = "PlayTts"
    /\ lastOp.trail = <<"StopTts", "SendToStt", "ProcessText", "PlayTts">>
    /\ sm.state = "Speaking"

\* Command invocation p waits for the mutex or, blocked inside read() or
\* write(), for a controller's lock.
WorkerWaits(p) ==
    \/ lk.w[p].pc = "lock"
    \/ \E c \in 1..LockControllers : p \in lk.c[c].parked

\* Controller c's thread is blocked inside read() or write().
ThreadWaits(c) == LockThread \in lk.c[c].parked

\* Somebody can take a step: get the lock it waits for, or go on holding one.
SomebodyMoves ==
    \/ \E p \in 1..LockWorkers :
          \/ lk.w[p].pc = "lock" /\ lk.mutex = {}
          \/ lk.w[p].pc \in {"new", "held", "capturing", "failed"}
          \/ lk.w[p].pc = "in" /\ lk.w[p].todo = << >>
          \/ /\ lk.w[p].pc = "in" /\ lk.w[p].todo # << >>
             /\ lk.c[lk.w[p].c] # (IF Head(lk.w[p].todo) = "r"
                                    THEN LockShared(lk.c[lk.w[p].c], p)
                                    ELSE LockExclusive(lk.c[lk.w[p].c], p))
    \/ \E c \in 1..LockControllers :
          \/ lk.c[c].t \in {"snapshot", "wake", "add", "tr"}
          \/ lk.c[c].t = "want_snapshot" /\ lk.c[c] # LockShared(lk.c[c], LockThread)
          \/ lk.c[c].t \in ThreadWriteWaits /\ lk.c[c] # LockExclusive(lk.c[c], LockThread)

\* C40: the system never deadlocks: whenever a command or a processing thread
\* waits for a lock somebody can take a step, every command that was invoked
\* returns, whether its start succeeds or fails, and every lock acquisition
\* of a thread succeeds.
C40_NoDeadlock ==
    /\ []((\/ \E c \in 1..LockControllers : ThreadWaits(c)
           \/ \E p \in 1..LockWorkers : WorkerWaits(p)) => SomebodyMoves)
    /\ \A p \in 1..LockWorkers : (lk.w[p].pc # "idle") ~> (lk.w[p].pc = "idle")
    /\ \A c \in 1..LockControllers : ThreadWaits(c) ~> ~ThreadWaits(c)

\* A command holds the mutex and is blocked in state.write() on the second
\* controller while its thread holds the read lock for its snapshot and
\* another command waits for the mutex; the first controller's thread has
\* ended on a closed channel.
C40_Witness ==
    /\ \E p \in 1..LockWorkers :
          /\ lk.mutex = {p}
          /\ lk.w[p].pc = "in" /\ lk.w[p].todo = <<"w">>
          /\ lk.w[p].c = LockControllers
          /\ p \in lk.c[LockControllers].parked
    /\ LockThread \in lk.c[LockControllers].readers
    /\ \E p \in 1..LockWorkers : lk.w[p].pc = "lock"
    /\ lk.c[1].t = "closed"

====
